---------------------------- MODULE Spec2Model ----------------------------
(***************************************************************************)
(* Model of the request execution pipeline of RestCallPackage              *)
(* (src/network.go, src/config.go): the process-wide client, the payload   *)
(* codec and the retry loop of executeRequestWithRetry.                    *)
(*                                                                         *)
(* Texts (URLs, payloads, error messages) are sequences of fragments.  A   *)
(* text is cut so that every phrase the code searches for or inserts is a  *)
(* whole run of fragments; numbers are written digit by digit, as          *)
(* fmt.Sprintf("%d") writes them.  Times are in seconds.                   *)
(***************************************************************************)
EXTENDS Integers, Sequences, FiniteSets

(***************************************************************************)
(* Bounds of the model.                                                    *)
(***************************************************************************)
\* largest MaxRetries an explicit configuration asks for
MaxRetriesBound == 2
\* largest RetryDelay an explicit configuration asks for
MaxRetryDelay == 2
\* BaseTimeout of the explicit configurations
ShortTimeout == 3
\* longest round trip that ends on its own, before the deadline
MaxDuration == 1
\* latest clock reading at which a call is entered
MaxEntryTime == 0
\* how many times the application calls Init while calls are running
MaxInits == 2

(***************************************************************************)
(* Texts.                                                                  *)
(***************************************************************************)
\* strings.Contains(s, sub)
Contains(s, sub) ==
  \E text \in {s} :
    \E i \in 0..(Len(text) - Len(sub)) :
      \A j \in 1..Len(sub) : text[i + j] = sub[j]

DigitChar(d) ==
  CASE d = 0 -> "0" [] d = 1 -> "1" [] d = 2 -> "2" [] d = 3 -> "3"
    [] d = 4 -> "4" [] d = 5 -> "5" [] d = 6 -> "6" [] d = 7 -> "7"
    [] d = 8 -> "8" [] d = 9 -> "9"

RECURSIVE NatDigits(_)
NatDigits(n) ==
  IF n < 10 THEN <<DigitChar(n)>>
  ELSE NatDigits(n \div 10) \o <<DigitChar(n % 10)>>

\* fmt.Sprintf("%d", n)
FormatInt(n) == IF n < 0 THEN <<"-">> \o NatDigits(0 - n) ELSE NatDigits(n)

(***************************************************************************)
(* Errors.  kind is the Go type of the error value; msg is Error().        *)
(*   none      nil                                                         *)
(*   config    errors.New in Validate, wrapped by Init                     *)
(*   parse     *url.Error of url.Parse / http.NewRequestWithContext        *)
(*   json      json.Marshal's error                                        *)
(*   status    fmt.Errorf("received non-2xx response code: %d")            *)
(*   transport *url.Error of httpClient.Do for a network failure           *)
(*   read      the error of io.ReadAll on the response body                *)
(*   deadline  context.DeadlineExceeded, bare (ctx.Err()) or wrapped in    *)
(*             the *url.Error of httpClient.Do                             *)
(***************************************************************************)
NoErr == [kind |-> "none", msg |-> <<>>]

Err(k, m) == [kind |-> k, msg |-> m]

\* context.DeadlineExceeded.Error()
DeadlineText == <<"context deadline exceeded">>

\* ctx.Err() once the deadline has passed
CtxErr == Err("deadline", DeadlineText)

(***************************************************************************)
(* Configuration (src/config.go).                                          *)
(***************************************************************************)
\* the retryable status set NewConfig installs
DefaultRetryOnStatus == {500, 502, 503, 504}

\* the BaseTimeout ensureInitialized passes to NewConfig: 30 * time.Second
DefaultBaseTimeout == 30

NewConfig(baseTimeout) ==
  [BaseTimeout |-> baseTimeout,
   TLSConfig |-> [InsecureSkipVerify |-> FALSE],
   TimeoutConfig |-> [DialTimeout |-> 5,
                      TLSHandshakeTimeout |-> 10,
                      ResponseHeaderTimeout |-> 10,
                      IdleConnTimeout |-> 90,
                      ExpectContinueTimeout |-> 1],
   ConnectionConfig |-> [MaxIdleConns |-> 100,
                         MaxIdleConnsPerHost |-> 10,
                         MaxConnsPerHost |-> 0],
   RetryConfig |-> [MaxRetries |-> 0,
                    RetryDelay |-> 1,
                    RetryOnStatus |-> DefaultRetryOnStatus],
   LoggingConfig |-> [Enabled |-> TRUE,
                      LogRequestBody |-> TRUE,
                      LogResponseBody |-> TRUE,
                      LogHeaders |-> TRUE,
                      SanitizeHeaders |-> TRUE]]

\* a WithRetry that patches field by field: an empty RetryOnStatus keeps
\* the status set the Config had
WithRetryPatch(c, retryConfig) ==
  [c EXCEPT !.RetryConfig =
     [retryConfig EXCEPT !.RetryOnStatus =
        IF retryConfig.RetryOnStatus = {} THEN c.RetryConfig.RetryOnStatus
        ELSE retryConfig.RetryOnStatus]]

\* (c *Config) WithRetry(retryConfig)
WithRetry(c, retryConfig) == [c EXCEPT !.RetryConfig = retryConfig]

\* (c *Config) WithLogging(logConfig)
WithLogging(c, logConfig) == [c EXCEPT !.LoggingConfig = logConfig]

\* a Validate that tests maxRetries before the other rules
ValidateRetriesFirst(c) ==
  IF c.RetryConfig.MaxRetries < 0
    THEN Err("config", <<"maxRetries cannot be negative">>)
  ELSE IF c.BaseTimeout <= 0
    THEN Err("config", <<"baseTimeout must be greater than 0">>)
  ELSE IF c.TimeoutConfig.DialTimeout <= 0
    THEN Err("config", <<"dialTimeout must be greater than 0">>)
  ELSE IF c.TimeoutConfig.TLSHandshakeTimeout <= 0
    THEN Err("config", <<"tlsHandshakeTimeout must be greater than 0">>)
  ELSE IF c.ConnectionConfig.MaxIdleConns < 0
    THEN Err("config", <<"maxIdleConns cannot be negative">>)
  ELSE IF c.ConnectionConfig.MaxIdleConnsPerHost < 0
    THEN Err("config", <<"maxIdleConnsPerHost cannot be negative">>)
  ELSE NoErr

\* (c *Config) Validate(): the first violated rule, or nil
Validate(c) ==
  IF c.BaseTimeout <= 0
    THEN Err("config", <<"baseTimeout must be greater than 0">>)
  ELSE IF c.TimeoutConfig.DialTimeout <= 0
    THEN Err("config", <<"dialTimeout must be greater than 0">>)
  ELSE IF c.TimeoutConfig.TLSHandshakeTimeout <= 0
    THEN Err("config", <<"tlsHandshakeTimeout must be greater than 0">>)
  ELSE IF c.ConnectionConfig.MaxIdleConns < 0
    THEN Err("config", <<"maxIdleConns cannot be negative">>)
  ELSE IF c.ConnectionConfig.MaxIdleConnsPerHost < 0
    THEN Err("config", <<"maxIdleConnsPerHost cannot be negative">>)
  ELSE IF c.RetryConfig.MaxRetries < 0
    THEN Err("config", <<"maxRetries cannot be negative">>)
  ELSE NoErr

\* createHTTPClient(cfg): the settings the client and its transport copy
createHTTPClient(cfg) ==
  [Timeout |-> cfg.BaseTimeout,
   DialTimeout |-> cfg.TimeoutConfig.DialTimeout,
   TLSHandshakeTimeout |-> cfg.TimeoutConfig.TLSHandshakeTimeout,
   ResponseHeaderTimeout |-> cfg.TimeoutConfig.ResponseHeaderTimeout,
   ExpectContinueTimeout |-> cfg.TimeoutConfig.ExpectContinueTimeout,
   IdleConnTimeout |-> cfg.TimeoutConfig.IdleConnTimeout,
   MaxIdleConns |-> cfg.ConnectionConfig.MaxIdleConns,
   MaxIdleConnsPerHost |-> cfg.ConnectionConfig.MaxIdleConnsPerHost,
   MaxConnsPerHost |-> cfg.ConnectionConfig.MaxConnsPerHost,
   InsecureSkipVerify |-> cfg.TLSConfig.InsecureSkipVerify]

\* the zero values of the package variables config and httpClient
NilConfig == [nil |-> TRUE]

NilClient == [nil |-> TRUE]

\* the package variables: [config, httpClient, isInitialized]
ClientState(c, h, i) == [config |-> c, httpClient |-> h, isInitialized |-> i]

\* an Init that installs the configuration before it validates it
InitResultEager(g, cfg) ==
  IF Validate(cfg) # NoErr
    THEN [g |-> ClientState(cfg, g.httpClient, g.isInitialized),
          err |-> Err("config", <<"invalid configuration: ">> \o Validate(cfg).msg)]
    ELSE [g |-> ClientState(cfg, createHTTPClient(cfg), TRUE), err |-> NoErr]

\* Init(cfg) run on the package variables g: the new variables and the error
InitResult(g, cfg) ==
  IF Validate(cfg) # NoErr
    THEN [g |-> g,
          err |-> Err("config", <<"invalid configuration: ">> \o Validate(cfg).msg)]
    ELSE [g |-> ClientState(cfg, createHTTPClient(cfg), TRUE), err |-> NoErr]

\* ensureInitialized() without its isInitialized test: every call installs
\* the default configuration
EnsureAlways(g) == InitResult(g, NewConfig(DefaultBaseTimeout)).g

\* ensureInitialized() run on the package variables g
ensureInitialized(g) ==
  IF ~g.isInitialized
    THEN InitResult(g, NewConfig(DefaultBaseTimeout)).g
    ELSE g

(***************************************************************************)
(* The configurations the embedding application builds and hands to Init.  *)
(***************************************************************************)
StatusSets == {{}, DefaultRetryOnStatus, DefaultRetryOnStatus \cup {429}, {50}}

RetryConfigs ==
  [MaxRetries : {-1} \cup (1..MaxRetriesBound),
   RetryDelay : {0, MaxRetryDelay},
   RetryOnStatus : StatusSets]

\* logging switched off
Silent ==
  [Enabled |-> FALSE, LogRequestBody |-> TRUE, LogResponseBody |-> TRUE,
   LogHeaders |-> TRUE, SanitizeHeaders |-> TRUE]

UserConfigs ==
  {NewConfig(0), NewConfig(ShortTimeout)}
    \cup {WithRetry(NewConfig(ShortTimeout), r) : r \in RetryConfigs}
    \cup {WithLogging(WithRetry(NewConfig(ShortTimeout),
                                [MaxRetries |-> 1, RetryDelay |-> 0,
                                 RetryOnStatus |-> DefaultRetryOnStatus]),
                      Silent)}

(***************************************************************************)
(* Payload codec (makeRequest, makeRequestWithString, MakeXMLPostRequest). *)
(* A Go map is a set of entries [k, v, ok] with one entry per key, or the  *)
(* nil map; ok = FALSE marks a value json.Marshal cannot encode (a func).  *)
(***************************************************************************)
methodGET == "GET"

methodPOST == "POST"

methodPUT == "PUT"

methodDELETE == "DELETE"

methodPATCH == "PATCH"

methodHEAD == "HEAD"

methodOPTIONS == "OPTIONS"

isQueryParamMethod(method) ==
  method = methodGET \/ method = methodDELETE
    \/ method = methodHEAD \/ method = methodOPTIONS

NilMap == [isNil |-> TRUE, m |-> {}]

MakeMap(entries) == [isNil |-> FALSE, m |-> entries]

Entry(key, value) == [k |-> key, v |-> value, ok |-> TRUE]

Keys(mp) == {e.k : e \in mp.m}

\* the keys of the model's maps, in the byte order Go sorts them in
KeyOrder ==
  <<"Accept", "Authorization", "Content-Type", "X-Api-Key", "content-type",
    "limit", "msg", "page", "sort">>

\* the entries of mp in increasing key order, from position i of KeyOrder
RECURSIVE SortedFrom(_, _)
SortedFrom(mp, i) ==
  IF i > Len(KeyOrder) THEN <<>>
  ELSE LET here == {e \in mp.m : e.k = KeyOrder[i]}
       IN  (IF here = {} THEN <<>> ELSE <<CHOOSE e \in here : TRUE>>)
             \o SortedFrom(mp, i + 1)

\* url.QueryEscape: a space becomes +; the other characters of the model's
\* keys and values are written as they are
RECURSIVE QueryEscape(_)
QueryEscape(v) ==
  IF v = <<>> THEN <<>>
  ELSE <<IF Head(v) = " " THEN "+" ELSE Head(v)>> \o QueryEscape(Tail(v))

\* url.QueryUnescape: + and %20 are a space
RECURSIVE QueryUnescape(_)
QueryUnescape(v) ==
  IF v = <<>> THEN <<>>
  ELSE <<IF Head(v) \in {"+", "%20"} THEN " " ELSE Head(v)>>
         \o QueryUnescape(Tail(v))

\* url.Values.Encode(): k=v pairs in key order, joined by &
RECURSIVE EncodePairs(_)
EncodePairs(es) ==
  IF es = <<>> THEN <<>>
  ELSE <<es[1].k, "=">> \o QueryEscape(es[1].v)
         \o (IF Len(es) > 1 THEN <<"&">> ELSE <<>>)
         \o EncodePairs(Tail(es))

\* the first position of x in s, 0 when there is none
IndexOf(s, x) ==
  IF \E i \in 1..Len(s) : s[i] = x
    THEN CHOOSE i \in 1..Len(s) : s[i] = x /\ \A j \in 1..(i - 1) : s[j] # x
    ELSE 0

\* strings.Split(s, sep)
RECURSIVE Split(_, _)
Split(s, sep) ==
  IF IndexOf(s, sep) = 0 THEN <<s>>
  ELSE <<SubSeq(s, 1, IndexOf(s, sep) - 1)>>
         \o Split(SubSeq(s, IndexOf(s, sep) + 1, Len(s)), sep)

\* the parts of a URL text: u.RawQuery is what follows the first ?
RawQuery(u) ==
  IF IndexOf(u, "?") = 0 THEN <<>> ELSE SubSeq(u, IndexOf(u, "?") + 1, Len(u))

BeforeQuery(u) ==
  IF IndexOf(u, "?") = 0 THEN u ELSE SubSeq(u, 1, IndexOf(u, "?") - 1)

\* u.Query(): the parameters of the raw query, unescaped
Query(u) ==
  LET pieces == Split(RawQuery(u), "&")
  IN  MakeMap({[k |-> piece[1],
                v |-> QueryUnescape(SubSeq(piece, IndexOf(piece, "=") + 1, Len(piece))),
                ok |-> TRUE] :
                 piece \in {pieces[i] : i \in 1..Len(pieces)} \ {<<>>}})

\* query values made of the payload alone, the base URL's parameters dropped
PayloadOnly(q, payload) == MakeMap(payload.m)

\* "for key, value := range payload { q.Set(key, fmt.Sprint(value)) }"
SetAll(q, payload) ==
  MakeMap({e \in q.m : e.k \notin Keys(payload)} \cup payload.m)

\* u.String() after "u.RawQuery = rawQuery"
WithRawQuery(u, rawQuery) ==
  BeforeQuery(u) \o (IF rawQuery # <<>> THEN <<"?">> \o rawQuery ELSE <<>>)

\* json.Marshal of a map: {"k":"v",...} in key order
RECURSIVE MarshalPairs(_)
MarshalPairs(es) ==
  IF es = <<>> THEN <<>>
  ELSE <<"\"", es[1].k, "\"", ":", "\"">> \o es[1].v \o <<"\"">>
         \o (IF Len(es) > 1 THEN <<",">> ELSE <<>>)
         \o MarshalPairs(Tail(es))

jsonMarshal(mp) ==
  IF \E e \in mp.m : ~e.ok
    THEN [out |-> <<>>, err |-> Err("json", <<"json: unsupported type: func()">>)]
    ELSE [out |-> <<"{">> \o MarshalPairs(SortedFrom(mp, 1)) \o <<"}">>,
          err |-> NoErr]

\* url.Parse rejects a text with an invalid percent escape
BadEscape == <<"%zz">>

ParseFails(urlStr) == Contains(urlStr, BadEscape)

\* the *url.Error of url.Parse and of http.NewRequestWithContext
ParseError(urlStr) ==
  Err("parse", <<"parse ", "\"">> \o urlStr
                 \o <<"\"", ": ", "invalid URL escape ", "\"">> \o BadEscape \o <<"\"">>)

\* an io.Reader: nil, a *bytes.Buffer or a *strings.Reader over data, of
\* which the first off fragments have been read
NilBody == [kind |-> "nil", data |-> <<>>, off |-> 0]

NewBuffer(data) == [kind |-> "buffer", data |-> data, off |-> 0]

NewReader(data) == [kind |-> "reader", data |-> data, off |-> 0]

\* what the codec hands to executeRequest
Encoded(u, b, ps) == [err |-> NoErr, urlStr |-> u, body |-> b, payloadStr |-> ps]

Failed(e) == [err |-> e, urlStr |-> <<>>, body |-> NilBody, payloadStr |-> <<>>]

\* makeRequest up to its call of executeRequest
makeRequest(method, urlStr, payload) ==
  IF ParseFails(urlStr) THEN Failed(ParseError(urlStr))
  ELSE IF isQueryParamMethod(method)
    THEN Encoded(IF ~payload.isNil
                   THEN WithRawQuery(urlStr,
                          EncodePairs(SortedFrom(SetAll(Query(urlStr), payload), 1)))
                   ELSE urlStr,
                 NilBody, <<>>)
  ELSE IF payload.isNil THEN Encoded(urlStr, NilBody, <<>>)
  ELSE IF jsonMarshal(payload).err # NoErr THEN Failed(jsonMarshal(payload).err)
  ELSE Encoded(urlStr, NewBuffer(jsonMarshal(payload).out), jsonMarshal(payload).out)

\* a makeRequestWithString that sends the string as it is
makeRequestWithStringRaw(method, urlStr, payload) ==
  IF ParseFails(urlStr) THEN Failed(ParseError(urlStr))
  ELSE IF ~isQueryParamMethod(method) /\ payload # <<>>
    THEN Encoded(urlStr, NewBuffer(payload), payload)
  ELSE Encoded(urlStr, NilBody, <<>>)

\* makeRequestWithString up to its call of executeRequest
makeRequestWithString(method, urlStr, payload) ==
  IF ParseFails(urlStr) THEN Failed(ParseError(urlStr))
  ELSE IF ~isQueryParamMethod(method) /\ payload # <<>>
    THEN Encoded(urlStr, NewBuffer(<<"\"">> \o payload \o <<"\"">>),
                 <<"\"">> \o payload \o <<"\"">>)
  ELSE Encoded(urlStr, NilBody, <<>>)

\* the header value MakeXMLPostRequest injects
XMLContentType == <<"text/xml; charset=UTF-8">>

\* MakeXMLPostRequest's headers: a nil map becomes a new map, and
\* Content-Type is set when the key is absent
xmlHeaders(headers) ==
  IF "Content-Type" \in Keys(headers)
    THEN headers
    ELSE MakeMap(headers.m \cup {Entry("Content-Type", XMLContentType)})

\* MakeXMLPostRequest up to its call of executeRequest
makeXMLRequest(urlStr, xmlPayload) ==
  Encoded(urlStr, NewBuffer(xmlPayload), xmlPayload)

(***************************************************************************)
(* The log (logRequest, logResponseWithDuration, LogError, LogWarning).    *)
(* What is written to the log is a set of entries [property, content], as  *)
(* logColoredEntry prints them; separators, timestamps and colours are     *)
(* left out, and so are the description and the duration.  Header names   *)
(* are spelled, and the values of headers are written, character by        *)
(* character where the code measures or cuts them.                         *)
(***************************************************************************)
Upper == <<"A", "B", "C", "D", "E", "F", "G", "H", "I", "J", "K", "L", "M",
          "N", "O", "P", "Q", "R", "S", "T", "U", "V", "W", "X", "Y", "Z">>

Lower == <<"a", "b", "c", "d", "e", "f", "g", "h", "i", "j", "k", "l", "m",
          "n", "o", "p", "q", "r", "s", "t", "u", "v", "w", "x", "y", "z">>

\* strings.ToLower
ToLowerChar(c) ==
  IF \E i \in 1..Len(Upper) : Upper[i] = c
    THEN Lower[CHOOSE i \in 1..Len(Upper) : Upper[i] = c]
    ELSE c

RECURSIVE ToLower(_)
ToLower(s) ==
  IF s = <<>> THEN <<>> ELSE <<ToLowerChar(Head(s))>> \o ToLower(Tail(s))

\* the upper-case letter of a lower-case one
ToUpperChar(c) ==
  IF \E i \in 1..Len(Lower) : Lower[i] = c
    THEN Upper[CHOOSE i \in 1..Len(Lower) : Lower[i] = c]
    ELSE c

\* textproto.CanonicalMIMEHeaderKey, which http.Header.Add applies to the
\* name: the first letter and every letter after a hyphen in upper case,
\* the others in lower case; up says that the next letter is such a one
RECURSIVE CanonicalMIMEHeaderKey(_, _)
CanonicalMIMEHeaderKey(s, up) ==
  IF s = <<>> THEN <<>>
  ELSE <<IF up THEN ToUpperChar(Head(s)) ELSE ToLowerChar(Head(s))>>
         \o CanonicalMIMEHeaderKey(Tail(s), Head(s) = "-")

\* the characters of a header name
Spell(key) ==
    CASE key = "Accept" -> <<"A", "c", "c", "e", "p", "t">>
      [] key = "Authorization" -> <<"A", "u", "t", "h", "o", "r", "i", "z", "a", "t", "i", "o", "n">>
      [] key = "Content-Type" -> <<"C", "o", "n", "t", "e", "n", "t", "-", "T", "y", "p", "e">>
      [] key = "X-Api-Key" -> <<"X", "-", "A", "p", "i", "-", "K", "e", "y">>
      [] key = "content-type" -> <<"c", "o", "n", "t", "e", "n", "t", "-", "t", "y", "p", "e">>

\* sensitiveHeaders of sanitizeHeaderValue
sensitiveHeaders ==
  <<<<"a", "u", "t", "h", "o", "r", "i", "z", "a", "t", "i", "o", "n">>,
    <<"a", "u", "t", "h">>,
    <<"t", "o", "k", "e", "n">>,
    <<"a", "p", "i", "-", "k", "e", "y">>,
    <<"x", "-", "a", "p", "i", "-", "k", "e", "y">>,
    <<"b", "e", "a", "r", "e", "r">>>>

\* a sanitizeHeaderValue that keeps the whole value when it cuts
SanitizeKeepsValue(key, value) ==
  IF \E lowerKey \in {ToLower(Spell(key))} :
       \E i \in 1..Len(sensitiveHeaders) : Contains(lowerKey, sensitiveHeaders[i])
    THEN IF Len(value) > 10 THEN value \o <<".", ".", ".">> ELSE <<"*", "*", "*">>
    ELSE value

\* sanitizeHeaderValue(key, value)
sanitizeHeaderValue(key, value) ==
  IF \E lowerKey \in {ToLower(Spell(key))} :
       \E i \in 1..Len(sensitiveHeaders) : Contains(lowerKey, sensitiveHeaders[i])
    THEN IF Len(value) > 10
           THEN SubSeq(value, 1, 10) \o <<".", ".", ".">>
           ELSE <<"*", "*", "*">>
    ELSE value

\* formatHeaders(headers, sanitize): the JSON text of the headers
formatHeaders(hs, sanitize) ==
  IF hs.isNil \/ hs.m = {} THEN <<"{}">>
  ELSE jsonMarshal(MakeMap({[k |-> e.k,
                             v |-> IF sanitize THEN sanitizeHeaderValue(e.k, e.v)
                                               ELSE e.v,
                             ok |-> TRUE] : e \in hs.m})).out

\* formatBody(body): "null" for an empty body; the texts of the model are
\* compact JSON or no JSON and shorter than 1000 characters, and those
\* formatBody returns as they are
formatBody(b) == IF b = <<>> THEN <<"null">> ELSE b

LogEntry(property, content) == [property |-> property, content |-> content]

\* logRequest(method, endpoint, description, headers, payload) under cfg
logRequest(cfg, m, endpoint, hs, payload) ==
  IF ~cfg.LoggingConfig.Enabled THEN {}
  ELSE {LogEntry("outgoing-request", <<>>), LogEntry("method", <<m>>),
        LogEntry("url", endpoint)}
         \cup (IF cfg.LoggingConfig.LogHeaders /\ ~hs.isNil
                 THEN {LogEntry("headers",
                                formatHeaders(hs, cfg.LoggingConfig.SanitizeHeaders))}
                 ELSE {})
         \cup (IF cfg.LoggingConfig.LogRequestBody
                 THEN {LogEntry("payload", formatBody(payload))}
                 ELSE {})

\* logResponseWithDuration(description, response, statusCode, duration)
logResponseWithDuration(cfg, response, statusCode) ==
  IF ~cfg.LoggingConfig.Enabled THEN {}
  ELSE {LogEntry("incoming-response", <<>>), LogEntry("duration", <<>>)}
         \cup (IF statusCode # 0
                 THEN {LogEntry("status", FormatInt(statusCode))}
                 ELSE {})
         \cup (IF cfg.LoggingConfig.LogResponseBody
                 THEN {LogEntry("response", formatBody(response))}
                 ELSE {})

\* LogError(property, message) and LogWarning(property, message)
LogError(property, message) == {LogEntry(property, message)}

LogWarning(property, message) == {LogEntry(property, message)}

(***************************************************************************)
(* One attempt (executeRequestOnce) and the Retry Decision (shouldRetry).  *)
(***************************************************************************)
\* what the server answers
Statuses == {200, 300, 429, 503}

ResponseBodies == {<<>>, <<"r">>}

\* Error() of the failures of a round trip that the transport reports
ConnRefused == <<"dial tcp: ", "connect: ", "connection", " refused">>

DialTimedOut == <<"dial tcp: ", "i/o ", "timeout">>

NoSuchHost == <<"dial tcp: ", "lookup: ", "no such host">>

\* ... and of one whose text has the words of shouldRetry in another case
ProxyClosed == <<"Connection", " closed by proxy: ", "Timeout", " exceeded">>

\* Error() of a response body that ends early
UnexpectedEOF == <<"unexpected ", "EOF">>

\* what httpClient.Do and ReadResponseBody can do in one attempt:
\*   response  the round trip and the body read succeed
\*   neterr    the round trip fails in the network
\*   readerr   the body read fails
\*   ctx       the shared context ends the round trip
\*   ctxread   the shared context ends the body read
Response(code, b) == [kind |-> "response", status |-> code, body |-> b, text |-> <<>>]

Failure(k, t) == [kind |-> k, status |-> 0, body |-> <<>>, text |-> t]

\* the attempts that end on their own
FinishedTrips ==
  {Response(c, b) : c \in Statuses, b \in ResponseBodies}
    \cup {Failure("neterr", t) : t \in {ConnRefused, DialTimedOut, NoSuchHost, ProxyClosed}}
    \cup {Failure("readerr", UnexpectedEOF)}

\* the attempts the deadline ends
CutTrips == {Failure("ctx", DeadlineText), Failure("ctxread", DeadlineText)}

\* the operation name of a *url.Error of httpClient.Do
OpName(method) ==
  CASE method = methodGET -> "Get" [] method = methodPOST -> "Post"
    [] method = methodPUT -> "Put" [] method = methodDELETE -> "Delete"
    [] method = methodPATCH -> "Patch" [] method = methodHEAD -> "Head"
    [] method = methodOPTIONS -> "Options"

\* (*url.Error).Error(): Op "URL": Err
UrlErrorText(method, urlStr, t) ==
  <<OpName(method), " ", "\"">> \o urlStr \o <<"\"", ": ">> \o t

\* fmt.Errorf("received non-2xx response code: %d", code)
StatusError(code) ==
  Err("status", <<"received non-2xx ", "response code: ">> \o FormatInt(code))

\* the status test of executeRequestOnce with its lower bound off by one
ClassifyLoose(code, b) ==
  IF code <= 200 \/ code >= 300 THEN <<b, StatusError(code)>> ELSE <<b, NoErr>>

\* executeRequestOnce's check for non-2xx status codes
Classify(code, b) ==
  IF code < 200 \/ code >= 300 THEN <<b, StatusError(code)>> ELSE <<b, NoErr>>

\* an executeRequestOnce that returns no body with a status error
executeRequestOnceNoBody(method, urlStr, tr) ==
  IF ParseFails(urlStr) THEN <<<<>>, ParseError(urlStr)>>
  ELSE CASE tr.kind = "neterr" ->
              <<<<>>, Err("transport", UrlErrorText(method, urlStr, tr.text))>>
         [] tr.kind = "ctx" ->
              <<<<>>, Err("deadline", UrlErrorText(method, urlStr, tr.text))>>
         [] tr.kind = "readerr" -> <<<<>>, Err("read", tr.text)>>
         [] tr.kind = "ctxread" -> <<<<>>, Err("deadline", tr.text)>>
         [] tr.kind = "response" ->
              <<IF Classify(tr.status, tr.body)[2] = NoErr THEN tr.body ELSE <<>>,
                Classify(tr.status, tr.body)[2]>>

\* executeRequestOnce: the (body, error) it returns when the transport does tr
executeRequestOnce(method, urlStr, tr) ==
  IF ParseFails(urlStr) THEN <<<<>>, ParseError(urlStr)>>
  ELSE CASE tr.kind = "neterr" ->
              <<<<>>, Err("transport", UrlErrorText(method, urlStr, tr.text))>>
         [] tr.kind = "ctx" ->
              <<<<>>, Err("deadline", UrlErrorText(method, urlStr, tr.text))>>
         [] tr.kind = "readerr" -> <<<<>>, Err("read", tr.text)>>
         [] tr.kind = "ctxread" -> <<<<>>, Err("deadline", tr.text)>>
         [] tr.kind = "response" -> Classify(tr.status, tr.body)

\* what executeRequestOnce writes to the log when the transport does tr:
\* the request, then the error of httpClient.Do or, after the body was
\* read, the response
AttemptLog(cfg, m, endpoint, hs, payload, tr) ==
  logRequest(cfg, m, endpoint, hs, payload)
    \cup (IF tr.kind \in {"neterr", "ctx"}
            THEN LogError("request-error",
                          <<": ">> \o executeRequestOnce(m, endpoint, tr)[2].msg)
          ELSE IF tr.kind = "response"
            THEN logResponseWithDuration(cfg, tr.body, tr.status)
          ELSE {})

\* fmt.Sprintf("Attempt %d/%d for %s", attempt+1, maxAttempts, description)
RetryNotice(i, n) ==
  <<"Attempt ">> \o FormatInt(i + 1) \o <<"/">> \o FormatInt(n) \o <<" for ">>

\* the header of the request executeRequestOnce builds: one
\* req.Header.Add(key, value) for every entry of the map, each under the
\* canonical form of its key
RequestHeader(hs) ==
  {[name |-> CanonicalMIMEHeaderKey(Spell(e.k), TRUE), value |-> e.v, key |-> e.k] :
     e \in hs.m}

\* a shouldRetry that looks for its words in any case
shouldRetryAnyCase(err, cfg) ==
  IF err = NoErr THEN FALSE
  ELSE (\E statusCode \in cfg.RetryConfig.RetryOnStatus :
          Contains(err.msg, <<"response code: ">> \o FormatInt(statusCode)))
       \/ \E w \in {"connection", "Connection", "timeout", "Timeout", "EOF"} :
            Contains(err.msg, <<w>>)

\* shouldRetry(err) under the installed configuration cfg
shouldRetry(err, cfg) ==
  IF err = NoErr THEN FALSE
  ELSE (\E statusCode \in cfg.RetryConfig.RetryOnStatus :
          Contains(err.msg, <<"response code: ">> \o FormatInt(statusCode)))
       \/ Contains(err.msg, <<"connection">>)
       \/ Contains(err.msg, <<"timeout">>)
       \/ Contains(err.msg, <<"EOF">>)

(***************************************************************************)
(* The retry loop (executeRequest, executeRequestWithRetry): its decisions.*)
(***************************************************************************)
\* context.WithTimeout(context.Background(), config.BaseTimeout) at time t
CallDeadline(t, cfg) == t + cfg.BaseTimeout

\* a loop that gives every attempt a timeout of its own
FreshCtx(ctxDeadline, t, cfg) == t + cfg.BaseTimeout

\* the deadline of the ctx the loop passes to executeRequestOnce at time t
AttemptCtx(ctxDeadline, t, cfg) == ctxDeadline

\* a loop bounded by MaxRetries instead of MaxRetries + 1
MaxAttemptsShort(cfg) == cfg.RetryConfig.MaxRetries

\* maxAttempts := config.RetryConfig.MaxRetries + 1
MaxAttempts(cfg) == cfg.RetryConfig.MaxRetries + 1

\* ctx.Err() != nil at time t
CtxDone(ctxDeadline, t) == t >= ctxDeadline

\* the test after an attempt without its ctx.Err() part
StopOnSuccessOnly(err, ctxDone) == err = NoErr

\* "if lastErr == nil || ctx.Err() != nil": the loop returns at once
StopAfterAttempt(err, ctxDone) == err = NoErr \/ ctxDone

\* a retry wait that only sleeps: the timer case is always taken
TimerAlways(ctxDeadline, timerAt) == TRUE

\* a retry wait whose timer never fires
TimerNever(ctxDeadline, timerAt) == FALSE

\* the select of the retry wait: the case <-time.After(RetryDelay) can be
\* taken when the timer fires no later than the context ends ...
TimerWins(ctxDeadline, timerAt) == timerAt <= ctxDeadline

\* ... and the case <-ctx.Done() when the context ends no later than the timer
DeadlineWins(ctxDeadline, timerAt) == ctxDeadline <= timerAt

\* a retry that re-sends the body as the last attempt left it
KeepBody(b, payloadStr) == b

\* "Reset body reader for retry": a Seeker is rewound, any other non-nil
\* body is rebuilt from payloadStr
Rematerialize(b, payloadStr) ==
  IF b.kind = "reader" THEN [b EXCEPT !.off = 0]
  ELSE IF b.kind # "nil" THEN NewReader(payloadStr)
  ELSE b

\* a loop that returns an empty body with the last error
LoopResultNoBody(rb, err) == [body |-> <<>>, err |-> err]

\* "return responseBody, lastErr"
LoopResult(rb, err) == [body |-> rb, err |-> err]

\* a wait that returns the last attempt's outcome when the context ends
WaitResultLast(rb, err) == [body |-> rb, err |-> err]

\* "case <-ctx.Done(): return "", ctx.Err()"
WaitResult(rb, err) == [body |-> <<>>, err |-> CtxErr]

\* what the transport is handed as the request body: nothing for a nil
\* body, else the part of the body not yet read
NoWire == [present |-> FALSE, data |-> <<>>]

Unread(b) ==
  IF b.kind = "nil" THEN NoWire
  ELSE [present |-> TRUE, data |-> SubSeq(b.data, b.off + 1, Len(b.data))]

(***************************************************************************)
(* State.                                                                  *)
(***************************************************************************)
VARIABLES
  config,          \* package variable config, or NilConfig
  httpClient,      \* package variable httpClient, or NilClient
  isInitialized,   \* package variable isInitialized
  initRet,         \* what the last Init returned to the application
  appInit,         \* an Init called by the application has succeeded
  pc,              \* where the call is: idle, attempt, wait, done
  method,          \* the arguments of executeRequestWithRetry ...
  urlStr,
  body,
  payloadStr,
  headers,
  ctx,             \* ... the deadline of its ctx
  maxAttempts,     \* the locals of executeRequestWithRetry
  attempt,
  lastErr,
  responseBody,
  now,             \* the clock
  ret,             \* what the call returned to its caller
  callerHeaders,   \* the caller's headers map, which the call was handed
  obs,             \* what an observer has seen of the call
  logged,          \* the entries the call has written to the log in the
                   \* current iteration of its loop
  goroutine,       \* where each goroutine is in Init and ensureInitialized
  initLog,         \* which Init invocation wrote config and httpClient
  app              \* what the application holds besides the package: the
                   \* call it makes twice and the transport's script for
                   \* it, or the Config it is about to pass to Init

package == <<config, httpClient, isInitialized, initRet, appInit>>

args == <<method, urlStr, payloadStr, headers, callerHeaders>>

locals == <<maxAttempts, attempt, lastErr, responseBody>>

vars == <<config, httpClient, isInitialized, initRet, appInit, pc, method,
          urlStr, body, payloadStr, headers, ctx, maxAttempts, attempt,
          lastErr, responseBody, now, ret, callerHeaders, obs, logged,
          goroutine, initLog, app>>

\* the variables of the goroutines that run Init step by step
conc == <<goroutine, initLog>>

\* the variables of the call whose loop is followed attempt by attempt
call == <<pc, method, urlStr, body, payloadStr, headers, ctx, maxAttempts,
          attempt, lastErr, responseBody, now, ret, callerHeaders, obs,
          logged>>

Globals == ClientState(config, httpClient, isInitialized)

NoRet == [none |-> TRUE]

\* the arguments of a public operation: op is query (MakeGETRequest, ...),
\* struct (MakePOSTRequest, ...), string (MakePOSTRequestWithString, ...) or
\* xml (MakeXMLPostRequest); payload is the structured payload of the first
\* two, text the raw payload of the others
Args(op, m, u, payload, h) ==
  [op |-> op, method |-> m, url |-> u,
   payload |-> IF op \in {"query", "struct"} THEN payload ELSE NilMap,
   text |-> IF op \in {"string", "xml"} THEN payload ELSE <<>>,
   headers |-> h]

NoArgs == Args("none", "", <<>>, <<>>, NilMap)

\* the observer's record when a call enters the pipeline at time t
\*   entry       the time of entry
\*   gAtEntry    the package variables when the call was made
\*   wire        the body the codec produced
\*   sent        the body the transport was handed in the last attempt
\*   sentOk      every attempt so far was handed a body equal to wire
\*   reqCtx      the deadline of the ctx of the last request
\*   nAttempts   executeRequestOnce calls so far
\*   nTrips      round trips so far
\*   last        the (body, error) of the last attempt
\*   lastKind    what the transport did in the last attempt
\*   lastStatus  the status of the last response, 0 when there was none
\*   respBody    the body of the last response
\*   allRetryable every attempt so far ended in a retryable failure
\*   okAt        the attempt that was answered 2xx, 0 when none was
\*   waits       retry waits begun so far
\*   waitExpired the deadline ended a retry wait
\*   timerAt     when the timer of that wait would have fired
\*   expired     the deadline had fired when the last attempt returned an
\*               error
\*   cut         ... and the error would have been retried
\*   given       the public operation and the arguments it was called with
ObsAtEntry(t, g, b) ==
  [reached |-> TRUE, entry |-> t, gAtEntry |-> g, wire |-> Unread(b),
   given |-> NoArgs,
   sent |-> NoWire, sentOk |-> TRUE, reqCtx |-> 0, nAttempts |-> 0,
   nTrips |-> 0, last |-> NoRet, lastKind |-> "none", lastStatus |-> 0,
   respBody |-> <<>>, allRetryable |-> TRUE, okAt |-> 0, waits |-> 0,
   waitExpired |-> FALSE, timerAt |-> 0, expired |-> FALSE, cut |-> FALSE]

\* the observer's record of a call the codec refused
ObsRefused(g) == [ObsAtEntry(0, g, NilBody) EXCEPT !.reached = FALSE]

\* the observer's record while no call is being made
NoObs == ObsRefused(ClientState(NilConfig, NilClient, FALSE))

(***************************************************************************)
(* Goroutines.  The application's goroutine calls Init; each caller        *)
(* goroutine makes calls, which begin with ensureInitialized.  A goroutine *)
(* is at one of                                                            *)
(*   idle           outside the package                                    *)
(*   ensure         at the test of isInitialized                           *)
(*   Validate       in Init, before cfg.Validate()                         *)
(*   config         in Init, before "config = cfg"                         *)
(*   httpClient     in Init, before "httpClient = createHTTPClient(cfg)"   *)
(*   isInitialized  in Init, before "isInitialized = true"                 *)
(*   pipeline       in executeRequest, after ensureInitialized             *)
(* cfg is the argument of its Init, id the number of that invocation.      *)
(***************************************************************************)
Application == "app"

Callers == {"caller1", "caller2"}

Goroutines == {Application} \cup Callers

Parked == [at |-> "idle", cfg |-> NilConfig, id |-> 0]

\* no Init has run: config and httpClient were written by no invocation
NoInits == [config |-> 0, httpClient |-> 0, invocations |-> 0, built |-> 0,
            explicit |-> 0]

(***************************************************************************)
(* What the callers supply.                                                *)
(***************************************************************************)
GoodURL == <<"https://api.example.com/users">>

BadURL == <<"https://api.example.com/", "%zz">>

\* a URL url.Parse rejects whose text holds a word shouldRetry looks for
BadTimeoutURL == <<"https://api.example.com/", "timeout", "/", "%zz">>

URLs == {GoodURL, BadURL, BadTimeoutURL}

\* a base URL that has query parameters of its own
QueryURL ==
  <<"https://api.example.com/users", "?", "page", "=", "9", "&", "sort", "=",
    "a", "%20", "b">>

\* the base URLs of the query operations
QueryURLs == URLs \cup {QueryURL}

QueryMethods == {methodGET, methodDELETE, methodHEAD, methodOPTIONS}

BodyMethods == {methodPOST, methodPUT, methodPATCH}

QueryParams ==
  {MakeMap({}), MakeMap({Entry("page", <<"1">>), Entry("limit", <<"10">>)})}

StructPayloads ==
  {NilMap, MakeMap({Entry("msg", <<"hello">>)}),
   MakeMap({[k |-> "msg", v |-> <<>>, ok |-> FALSE]})}

StringPayloads == {<<>>, <<"hello">>}

XMLPayloads == {<<>>, <<"<a/>">>}

\* the headers of a JSON or query call
HeaderMaps == {NilMap, MakeMap({Entry("Accept", <<"application/json">>)})}

\* the headers of a raw-XML call: with and without a Content-Type
XMLHeaderMaps ==
  HeaderMaps
    \cup {MakeMap({Entry("Content-Type", <<"application/soap+xml">>)}),
          MakeMap({Entry("content-type", <<"application/soap+xml">>)})}

EntryTimes == 0..MaxEntryTime

\* the application holds nothing the model follows
NoReplay == [none |-> TRUE]

(***************************************************************************)
(* Initial state: the package variables hold their zero values and no      *)
(* call has been made.                                                     *)
(***************************************************************************)
Init ==
  /\ config = NilConfig
  /\ httpClient = NilClient
  /\ isInitialized = FALSE
  /\ initRet = NoRet
  /\ appInit = FALSE
  /\ pc = "idle"
  /\ method = ""
  /\ urlStr = <<>>
  /\ body = NilBody
  /\ payloadStr = <<>>
  /\ headers = NilMap
  /\ ctx = 0
  /\ maxAttempts = 0
  /\ attempt = 0
  /\ lastErr = NoErr
  /\ responseBody = <<>>
  /\ now = 0
  /\ ret = NoRet
  /\ callerHeaders = NilMap
  /\ obs = NoObs
  /\ logged = {}
  /\ goroutine = [p \in Goroutines |-> Parked]
  /\ initLog = NoInits
  /\ app = NoReplay

(***************************************************************************)
(* Init(cfg), called by the application between calls (the embedding       *)
(* application serialises Init with the calls).                            *)
(***************************************************************************)
InitCall(cfg) ==
  /\ pc = "idle"
  /\ LET r == InitResult(Globals, cfg)
     IN  /\ config' = r.g.config
         /\ httpClient' = r.g.httpClient
         /\ isInitialized' = r.g.isInitialized
         /\ initRet' = r.err
         /\ appInit' = (appInit \/ r.err = NoErr)
  /\ UNCHANGED <<call, conc, app>>

\* the retry settings the application switches to after Init
LateRetryConfigs ==
  {r \in RetryConfigs :
     /\ r.MaxRetries \in {-1, MaxRetriesBound}
     /\ r.RetryDelay = 0
     /\ r.RetryOnStatus = DefaultRetryOnStatus}

\* the application calls WithRetry on the Config it handed to the last
\* successful Init: Init kept the pointer ("config = cfg"), so the package
\* variable config names the same object and sees the new RetryConfig
WithRetryInstalled(retryConfig) ==
  /\ pc = "idle"
  /\ appInit
  /\ config' = WithRetry(config, retryConfig)
  /\ initRet' = NoRet
  /\ UNCHANGED <<httpClient, isInitialized, appInit, call, conc, app>>

(***************************************************************************)
(* The public operations.  g is the package variables after every          *)
(* ensureInitialized the operation runs before the loop, enc what the      *)
(* codec made of the arguments, t the time of entry.                       *)
(***************************************************************************)
\* the codec fails: the operation returns its error without reaching
\* executeRequest
Refuse(enc, h, a) ==
  /\ pc' = "done"
  /\ ret' = [body |-> <<>>, err |-> enc.err]
  /\ callerHeaders' = h
  /\ headers' = h
  /\ obs' = [ObsRefused(Globals) EXCEPT !.given = a]
  /\ logged' = {}
  /\ initRet' = NoRet
  /\ UNCHANGED <<config, httpClient, isInitialized, appInit, method, urlStr,
                 body, payloadStr, ctx, maxAttempts, attempt, lastErr,
                 responseBody, now, conc, app>>

\* executeRequest and the entry of executeRequestWithRetry
Enter(m, enc, reqHeaders, callerMap, g, t, a) ==
  /\ config' = g.config
  /\ httpClient' = g.httpClient
  /\ isInitialized' = g.isInitialized
  /\ initRet' = NoRet
  /\ UNCHANGED <<appInit, conc, app>>
  /\ method' = m
  /\ urlStr' = enc.urlStr
  /\ body' = enc.body
  /\ payloadStr' = enc.payloadStr
  /\ headers' = reqHeaders
  /\ callerHeaders' = callerMap
  /\ now' = t
  /\ ctx' = CallDeadline(t, g.config)
  /\ maxAttempts' = MaxAttempts(g.config)
  /\ attempt' = 0
  /\ lastErr' = NoErr
  /\ responseBody' = <<>>
  /\ obs' = [ObsAtEntry(t, Globals, enc.body) EXCEPT !.given = a]
  /\ logged' = {}
  /\ IF 0 < MaxAttempts(g.config)
       THEN pc' = "attempt" /\ ret' = NoRet
       ELSE pc' = "done" /\ ret' = LoopResult(<<>>, NoErr)

\* a query operation that writes a default Accept header into the
\* caller's map
MakeQueryRequestAccept(m, u, queryParams, h, t) ==
  /\ pc = "idle"
  /\ LET enc == makeRequest(m, u, MakeMap(queryParams.m))
         a == Args("query", m, u, queryParams, h)
         hs == IF h.isNil \/ "Accept" \in Keys(h) THEN h
               ELSE MakeMap(h.m \cup {Entry("Accept", <<"*/*">>)})
     IN  IF enc.err # NoErr THEN Refuse(enc, h, a)
         ELSE Enter(m, enc, hs, hs, ensureInitialized(Globals), t, a)

\* MakeGETRequest, MakeDELETERequest, MakeHEADRequest, MakeOPTIONSRequest
MakeQueryRequest(m, u, queryParams, h, t) ==
  /\ pc = "idle"
  /\ LET enc == makeRequest(m, u, MakeMap(queryParams.m))
         a == Args("query", m, u, queryParams, h)
     IN  IF enc.err # NoErr THEN Refuse(enc, h, a)
         ELSE Enter(m, enc, h, h, ensureInitialized(Globals), t, a)

\* MakePOSTRequest, MakePUTRequest, MakePATCHRequest
MakeBodyRequest(m, u, payload, h, t) ==
  /\ pc = "idle"
  /\ LET enc == makeRequest(m, u, payload)
         a == Args("struct", m, u, payload, h)
     IN  IF enc.err # NoErr THEN Refuse(enc, h, a)
         ELSE Enter(m, enc, h, h, ensureInitialized(Globals), t, a)

\* MakePOSTRequestWithString, MakePUTRequestWithString,
\* MakePATCHRequestWithString
MakeStringRequest(m, u, payload, h, t) ==
  /\ pc = "idle"
  /\ LET enc == makeRequestWithString(m, u, payload)
         a == Args("string", m, u, payload, h)
     IN  IF enc.err # NoErr THEN Refuse(enc, h, a)
         ELSE Enter(m, enc, h, h, ensureInitialized(Globals), t, a)

\* MakeXMLPostRequest: ensureInitialized, the headers, then executeRequest.
\* The caller's map is the map the operation writes to, unless it is nil.
MakeXMLPostRequest(u, xmlPayload, h, t) ==
  /\ pc = "idle"
  /\ Enter(methodPOST, makeXMLRequest(u, xmlPayload), xmlHeaders(h),
           IF h.isNil THEN h ELSE xmlHeaders(h),
           ensureInitialized(ensureInitialized(Globals)), t,
           Args("xml", methodPOST, u, xmlPayload, h))

(***************************************************************************)
(* One iteration of the loop of executeRequestWithRetry, from the call of  *)
(* executeRequestOnce to the end of the loop body.                         *)
(***************************************************************************)
\* the message names one of the failures shouldRetry takes for transient
Transient(t) ==
  Contains(t, <<"connection">>) \/ Contains(t, <<"timeout">>)
    \/ Contains(t, <<"EOF">>)

Is2xx(code) == 200 <= code /\ code <= 299

\* the attempt ended in a failure the configuration cfg names retryable: a
\* non-2xx status of the retryable set, or a transient network failure
RetryableFailure(tr, cfg) ==
  \/ tr.kind = "response" /\ ~Is2xx(tr.status)
       /\ tr.status \in cfg.RetryConfig.RetryOnStatus
  \/ tr.kind \in {"neterr", "readerr"} /\ Transient(tr.text)

\* the end of the loop body: out is what executeRequestOnce returned at
\* time t1 under the deadline c, o the observer's record of the attempt
Conclude(out, t1, c, o) ==
  LET e == out[2]
      stop == StopAfterAttempt(e, CtxDone(c, t1))
      retry == ~stop /\ shouldRetry(e, config)
      more == retry /\ attempt + 1 < maxAttempts
  IN  /\ responseBody' = out[1]
      /\ lastErr' = e
      /\ now' = t1
      /\ ctx' = c
      /\ attempt' = IF retry THEN attempt + 1 ELSE attempt
      /\ IF more
           THEN pc' = "wait" /\ ret' = NoRet
           ELSE pc' = "done" /\ ret' = LoopResult(out[1], e)
      /\ obs' = [o EXCEPT
                   !.nAttempts = @ + 1,
                   !.reqCtx = c,
                   !.last = [body |-> out[1], err |-> e],
                   !.waits = IF more THEN @ + 1 ELSE @,
                   !.expired = e # NoErr /\ CtxDone(c, t1),
                   !.cut = e # NoErr /\ CtxDone(c, t1) /\ shouldRetry(e, config)
                             /\ attempt + 1 < maxAttempts]

\* http.NewRequestWithContext refuses the URL: no round trip is made
AttemptNoTrip ==
  /\ pc = "attempt"
  /\ ParseFails(urlStr)
  /\ Conclude(executeRequestOnce(method, urlStr, Failure("none", <<>>)), now,
              AttemptCtx(ctx, now, config),
              [obs EXCEPT !.lastKind = "none", !.lastStatus = 0,
                          !.allRetryable = FALSE])
  /\ UNCHANGED <<package, args, maxAttempts, body, logged, conc, app>>

\* the round trip does tr and the attempt returns at time t1; sentAll says
\* whether the transport read the request body to its end: it did when a
\* response came back, it did not when the connection could not be made
AttemptTrip(tr, t1, sentAll) ==
  /\ pc = "attempt"
  /\ ~ParseFails(urlStr)
  /\ LET c == AttemptCtx(ctx, now, config)
     IN  /\ IF CtxDone(c, now)
              THEN tr = Failure("ctx", DeadlineText) /\ t1 = now
              ELSE \/ tr \in FinishedTrips /\ now <= t1 /\ t1 < c
                   \/ tr \in FinishedTrips \cup CutTrips /\ t1 = c
         /\ (body.kind = "nil" \/ tr.kind \in {"response", "readerr", "ctxread"})
              => sentAll
         /\ (body.kind # "nil" /\ tr.kind = "neterr") => ~sentAll
         /\ body' = IF body.kind # "nil" /\ sentAll
                      THEN [body EXCEPT !.off = Len(body.data)]
                      ELSE body
         /\ logged' = logged \cup AttemptLog(config, method, urlStr, headers,
                                              payloadStr, tr)
         /\ Conclude(executeRequestOnce(method, urlStr, tr), t1, c,
                     [obs EXCEPT
                        !.nTrips = @ + 1,
                        !.sent = Unread(body),
                        !.sentOk = @ /\ Unread(body) = obs.wire,
                        !.lastKind = tr.kind,
                        !.lastStatus = tr.status,
                        !.respBody = tr.body,
                        !.allRetryable = @ /\ RetryableFailure(tr, config),
                        !.okAt = IF @ = 0 /\ tr.kind = "response" /\ Is2xx(tr.status)
                                   THEN obs.nAttempts + 1 ELSE @])
  /\ UNCHANGED <<package, args, maxAttempts, conc, app>>

(***************************************************************************)
(* The retry wait: select on ctx.Done() and time.After(RetryDelay).        *)
(***************************************************************************)
\* a retry that starts the next attempt without waiting for the timer
WaitTimerSkipped ==
  /\ pc = "wait"
  /\ TimerWins(ctx, now + config.RetryConfig.RetryDelay)
  /\ now' = now
  /\ body' = Rematerialize(body, payloadStr)
  /\ pc' = "attempt"
  /\ logged' = LogWarning("retry", RetryNotice(attempt, maxAttempts))
  /\ UNCHANGED <<package, args, locals, ctx, ret, obs, conc, app>>

\* the timer fires: the body is re-materialized and the next attempt starts
WaitTimer ==
  /\ pc = "wait"
  /\ TimerWins(ctx, now + config.RetryConfig.RetryDelay)
  /\ now' = now + config.RetryConfig.RetryDelay
  /\ body' = Rematerialize(body, payloadStr)
  /\ pc' = "attempt"
  /\ logged' = LogWarning("retry", RetryNotice(attempt, maxAttempts))
  /\ UNCHANGED <<package, args, locals, ctx, ret, obs, conc, app>>

\* the context ends: the call returns
WaitDeadline ==
  /\ pc = "wait"
  /\ DeadlineWins(ctx, now + config.RetryConfig.RetryDelay)
  /\ now' = IF now < ctx THEN ctx ELSE now
  /\ ret' = WaitResult(responseBody, lastErr)
  /\ pc' = "done"
  /\ obs' = [obs EXCEPT !.waitExpired = TRUE,
                         !.timerAt = now + config.RetryConfig.RetryDelay]
  /\ UNCHANGED <<package, args, locals, ctx, body, logged, conc, app>>

\* the operation has returned: its arguments and locals are gone
Forget ==
  /\ pc = "done"
  /\ pc' = "idle"
  /\ method' = ""
  /\ urlStr' = <<>>
  /\ body' = NilBody
  /\ payloadStr' = <<>>
  /\ headers' = NilMap
  /\ ctx' = 0
  /\ maxAttempts' = 0
  /\ attempt' = 0
  /\ lastErr' = NoErr
  /\ responseBody' = <<>>
  /\ now' = 0
  /\ ret' = NoRet
  /\ callerHeaders' = NilMap
  /\ obs' = NoObs
  /\ logged' = {}

\* the caller takes the result
Finish == Forget /\ UNCHANGED <<package, conc, app>>

\* when an attempt made now can return: after a round trip of at most
\* MaxDuration, or as the deadline fires
ReturnTimes ==
  IF pc = "attempt"
    THEN (now..(now + MaxDuration)) \cup {AttemptCtx(ctx, now, config)}
    ELSE {}

Next ==
  \/ \E cfg \in UserConfigs : InitCall(cfg)
  \/ \E r \in LateRetryConfigs : WithRetryInstalled(r)
  \/ \E m \in QueryMethods, u \in QueryURLs, q \in QueryParams, h \in HeaderMaps,
        t \in EntryTimes : MakeQueryRequest(m, u, q, h, t)
  \/ \E m \in BodyMethods, u \in URLs, p \in StructPayloads, h \in HeaderMaps,
        t \in EntryTimes : MakeBodyRequest(m, u, p, h, t)
  \/ \E m \in BodyMethods, u \in URLs, p \in StringPayloads, h \in HeaderMaps,
        t \in EntryTimes : MakeStringRequest(m, u, p, h, t)
  \/ \E u \in URLs, p \in XMLPayloads, h \in XMLHeaderMaps, t \in EntryTimes :
        MakeXMLPostRequest(u, p, h, t)
  \/ AttemptNoTrip
  \/ \E tr \in FinishedTrips \cup CutTrips, t1 \in ReturnTimes, sentAll \in BOOLEAN :
        AttemptTrip(tr, t1, sentAll)
  \/ WaitTimer
  \/ WaitDeadline
  \/ Finish

Spec == Init /\ [][Next]_vars

(***************************************************************************)
(* Progress.  The transport ends every round trip, with a response, an     *)
(* error or at the deadline, and the runtime fires the timer of a retry    *)
(* wait or the deadline: an attempt that can return does, and so does a    *)
(* wait.  Nothing is assumed of the application, which makes GET calls and *)
(* raw-XML calls under a configuration Init accepted, or under the default.*)
(***************************************************************************)
\* the configurations Init has installed
LiveConfigs ==
  {WithRetry(NewConfig(ShortTimeout),
             [MaxRetries |-> n, RetryDelay |-> d,
              RetryOnStatus |-> DefaultRetryOnStatus]) :
     n \in {1, MaxRetriesBound}, d \in {0, MaxRetryDelay}}

\* no call is in progress and the package variables are g
BetweenCalls(g) ==
  /\ config = g.config
  /\ httpClient = g.httpClient
  /\ isInitialized = g.isInitialized
  /\ initRet = NoRet
  /\ appInit = g.isInitialized
  /\ pc = "idle"
  /\ method = ""
  /\ urlStr = <<>>
  /\ body = NilBody
  /\ payloadStr = <<>>
  /\ headers = NilMap
  /\ ctx = 0
  /\ maxAttempts = 0
  /\ attempt = 0
  /\ lastErr = NoErr
  /\ responseBody = <<>>
  /\ now = 0
  /\ ret = NoRet
  /\ callerHeaders = NilMap
  /\ obs = NoObs
  /\ logged = {}
  /\ goroutine = [p \in Goroutines |-> Parked]
  /\ initLog = NoInits
  /\ app = NoReplay

LiveInit ==
  \E g \in {ClientState(NilConfig, NilClient, FALSE)}
             \cup {InitResult(ClientState(NilConfig, NilClient, FALSE), c).g :
                     c \in LiveConfigs} :
    BetweenCalls(g)

\* an attempt returns
AttemptReturns ==
  \/ AttemptNoTrip
  \/ \E tr \in FinishedTrips \cup CutTrips, t1 \in ReturnTimes, sentAll \in BOOLEAN :
        AttemptTrip(tr, t1, sentAll)

\* a retry wait ends
WaitEnds == WaitTimer \/ WaitDeadline

LiveNext ==
  \/ \E t \in EntryTimes :
        MakeQueryRequest(methodGET, GoodURL, MakeMap({}), NilMap, t)
  \/ \E u \in {GoodURL, BadTimeoutURL}, t \in EntryTimes :
        MakeXMLPostRequest(u, <<"<a/>">>, NilMap, t)
  \/ AttemptReturns
  \/ WaitEnds
  \/ Finish

LiveSpec ==
  LiveInit /\ [][LiveNext]_vars /\ WF_vars(AttemptReturns) /\ WF_vars(WaitEnds)

(***************************************************************************)
(* Init and ensureInitialized, statement by statement, in goroutines that  *)
(* run at the same time.  No lock guards the package variables, so the     *)
(* statements of different goroutines interleave freely; each goroutine's  *)
(* stores are taken in program order.  initLog records                     *)
(*   config, httpClient  the invocation of Init that stored the variable   *)
(*   invocations         Init invocations begun                            *)
(*   built               createHTTPClient calls made                       *)
(*   explicit            Init calls the application has made               *)
(* The loop a caller runs after ensureInitialized is the one Spec follows; *)
(* it stores to no package variable.                                       *)
(***************************************************************************)
\* the configurations the application hands to Init while calls are running
ConcConfigs == {NewConfig(0), NewConfig(ShortTimeout), NewConfig(ShortTimeout + 1)}

\* where a goroutine is after its Init returned
AfterInit(p) ==
  IF p = Application THEN Parked ELSE [Parked EXCEPT !.at = "pipeline"]

\* the application calls Init(cfg)
InitBegin(cfg) ==
  /\ goroutine[Application].at = "idle"
  /\ initLog.explicit < MaxInits
  /\ goroutine' = [goroutine EXCEPT ![Application] =
                     [at |-> "Validate", cfg |-> cfg, id |-> initLog.invocations + 1]]
  /\ initLog' = [initLog EXCEPT !.invocations = @ + 1, !.explicit = @ + 1]
  /\ UNCHANGED <<package, call, app>>

\* "if err := cfg.Validate(); err != nil { return ... }"
InitValidate(p) ==
  /\ goroutine[p].at = "Validate"
  /\ goroutine' = [goroutine EXCEPT ![p] =
                     IF Validate(goroutine[p].cfg) # NoErr
                       THEN AfterInit(p)
                       ELSE [@ EXCEPT !.at = "config"]]
  /\ UNCHANGED <<package, call, initLog, app>>

\* "config = cfg"
InitStoreConfig(p) ==
  /\ goroutine[p].at = "config"
  /\ config' = goroutine[p].cfg
  /\ initLog' = [initLog EXCEPT !.config = goroutine[p].id]
  /\ goroutine' = [goroutine EXCEPT ![p].at = "httpClient"]
  /\ UNCHANGED <<httpClient, isInitialized, initRet, appInit, call, app>>

\* "httpClient = createHTTPClient(cfg)"
InitStoreClient(p) ==
  /\ goroutine[p].at = "httpClient"
  /\ httpClient' = createHTTPClient(goroutine[p].cfg)
  /\ initLog' = [initLog EXCEPT !.httpClient = goroutine[p].id, !.built = @ + 1]
  /\ goroutine' = [goroutine EXCEPT ![p].at = "isInitialized"]
  /\ UNCHANGED <<config, isInitialized, initRet, appInit, call, app>>

\* "isInitialized = true; return nil"
InitSetFlag(p) ==
  /\ goroutine[p].at = "isInitialized"
  /\ isInitialized' = TRUE
  /\ goroutine' = [goroutine EXCEPT ![p] = AfterInit(p)]
  /\ UNCHANGED <<config, httpClient, initRet, appInit, call, initLog, app>>

\* a caller's goroutine enters a public operation
CallBegin(p) ==
  /\ goroutine[p].at = "idle"
  /\ goroutine' = [goroutine EXCEPT ![p].at = "ensure"]
  /\ UNCHANGED <<package, call, initLog, app>>

\* ensureInitialized: "if !isInitialized { Init(NewConfig(30 * time.Second)) }"
EnsureCheck(p) ==
  /\ goroutine[p].at = "ensure"
  /\ IF ~isInitialized
       THEN /\ goroutine' = [goroutine EXCEPT ![p] =
                               [at |-> "Validate",
                                cfg |-> NewConfig(DefaultBaseTimeout),
                                id |-> initLog.invocations + 1]]
            /\ initLog' = [initLog EXCEPT !.invocations = @ + 1]
       ELSE /\ goroutine' = [goroutine EXCEPT ![p].at = "pipeline"]
            /\ UNCHANGED initLog
  /\ UNCHANGED <<package, call, app>>

\* the call runs its loop under the installed client and returns
Pipeline(p) ==
  /\ goroutine[p].at = "pipeline"
  /\ goroutine' = [goroutine EXCEPT ![p] = Parked]
  /\ UNCHANGED <<package, call, initLog, app>>

ConcNext ==
  \/ \E cfg \in ConcConfigs : InitBegin(cfg)
  \/ \E p \in Goroutines : InitValidate(p)
  \/ \E p \in Goroutines : InitStoreConfig(p)
  \/ \E p \in Goroutines : InitStoreClient(p)
  \/ \E p \in Goroutines : InitSetFlag(p)
  \/ \E p \in Callers : CallBegin(p)
  \/ \E p \in Callers : EnsureCheck(p)
  \/ \E p \in Callers : Pipeline(p)

ConcSpec == Init /\ [][ConcNext]_vars

(***************************************************************************)
(* The request log on its own: logRequest applied to headers maps with     *)
(* sensitive and plain entries, under every setting of the logging flags.  *)
(***************************************************************************)
\* the value of the header Authorization: Bearer abcdef1234567890
BearerToken ==
  <<"B", "e", "a", "r", "e", "r", " ", "a", "b", "c", "d", "e", "f",
    "1", "2", "3", "4", "5", "6", "7", "8", "9", "0">>

\* a value of ten characters and a shorter one
TenChars == <<"0", "1", "2", "3", "4", "5", "6", "7", "8", "9">>

ShortSecret == <<"s", "3", "c", "r", "e", "t">>

\* a Go string is a sequence of bytes: the ten characters of p-a-umlaut-s-s-
\* w-o-umlaut-r-t-e-r are twelve bytes in UTF-8, each umlaut a lead byte
\* and a continuation byte
UmlautSecret ==
  <<"p", "0xC3", "0xA4", "s", "s", "w", "0xC3", "0xB6", "r", "t", "e", "r">>

LoggingConfigs ==
  [Enabled : BOOLEAN, LogRequestBody : BOOLEAN, LogResponseBody : {TRUE},
   LogHeaders : BOOLEAN, SanitizeHeaders : BOOLEAN]

LoggedHeaderMaps ==
  {NilMap, MakeMap({}), MakeMap({Entry("Accept", <<"application/json">>)})}
    \cup {MakeMap({Entry(k, v)}) :
            k \in {"Authorization", "X-Api-Key"},
            v \in {BearerToken, TenChars, ShortSecret, UmlautSecret}}
    \cup {MakeMap({Entry("Authorization", v),
                    Entry("Accept", <<"application/json">>)}) :
            v \in {BearerToken, TenChars, ShortSecret, UmlautSecret}}

\* a GET is about to be logged: Init has installed a configuration with
\* the logging flags lc, and the call was handed the headers h
LogInit ==
  \E lc \in LoggingConfigs, h \in LoggedHeaderMaps :
    LET r == InitResult(ClientState(NilConfig, NilClient, FALSE),
                        WithLogging(NewConfig(ShortTimeout), lc))
    IN  /\ config = r.g.config
        /\ httpClient = r.g.httpClient
        /\ isInitialized = r.g.isInitialized
        /\ initRet = r.err
        /\ appInit = TRUE
        /\ pc = "log"
        /\ method = methodGET
        /\ urlStr = GoodURL
        /\ body = NilBody
        /\ payloadStr = <<>>
        /\ headers = h
        /\ ctx = ShortTimeout
        /\ maxAttempts = 1
        /\ attempt = 0
        /\ lastErr = NoErr
        /\ responseBody = <<>>
        /\ now = 0
        /\ ret = NoRet
        /\ callerHeaders = h
        /\ obs = NoObs
        /\ logged = {}
        /\ goroutine = [p \in Goroutines |-> Parked]
        /\ initLog = NoInits
        /\ app = NoReplay

\* executeRequestOnce calls logRequest(method, urlStr, description, headers,
\* payloadStr)
LogRequestStep ==
  /\ pc = "log"
  /\ logged' = logRequest(config, method, urlStr, headers, payloadStr)
  /\ pc' = "logged"
  /\ UNCHANGED <<package, method, urlStr, body, payloadStr, headers, ctx,
                 maxAttempts, attempt, lastErr, responseBody, now, ret,
                 callerHeaders, obs, conc, app>>

LogNext == LogRequestStep

LogSpec == LogInit /\ [][LogNext]_vars

(***************************************************************************)
(* One GET made twice.  The application calls MakeGETRequest, keeps what   *)
(* it returned, and calls it again with the same arguments: the same URL,  *)
(* the same query parameters and the headers map it passed the first time, *)
(* as the first call left it.  The transport follows a script, the same    *)
(* for both calls: what the round trip of each attempt does and how long   *)
(* it takes, and which case of the retry wait's select is taken when both  *)
(* are ready.                                                              *)
(***************************************************************************)
\* what a scripted round trip can do
ScriptTrips ==
  {Response(200, <<"r">>), Response(503, <<"r">>),
   Failure("neterr", ConnRefused), Failure("neterr", NoSuchHost),
   Failure("ctx", DeadlineText)}

\* the script of one attempt: the round trip and its duration
ScriptSteps == [tr : ScriptTrips, d : {0, MaxDuration}]

\* the configurations installed before the two calls; none when the calls
\* find the package uninitialized
ReplayConfigs ==
  {WithRetry(NewConfig(ShortTimeout),
             [MaxRetries |-> 1, RetryDelay |-> d,
              RetryOnStatus |-> DefaultRetryOnStatus]) : d \in {0, MaxRetryDelay}}

ReplayURLs == {GoodURL, QueryURL, BadURL}

\* what the application keeps of a call: what it returned, the request of
\* its last attempt, how many attempts it made, and the headers map as the
\* call left it
Outcome ==
  [ret |-> ret, urlStr |-> urlStr, header |-> RequestHeader(headers),
   sent |-> obs.sent, sentOk |-> obs.sentOk, nAttempts |-> obs.nAttempts,
   nTrips |-> obs.nTrips, callerHeaders |-> callerHeaders]

ReplayInit ==
  \E u \in ReplayURLs, h \in HeaderMaps \cup {MakeMap({})},
     s1 \in ScriptSteps, s2 \in ScriptSteps, sel \in {"timer", "deadline"},
     g \in {ClientState(NilConfig, NilClient, FALSE)}
             \cup {InitResult(ClientState(NilConfig, NilClient, FALSE), c).g :
                     c \in ReplayConfigs} :
    /\ config = g.config
    /\ httpClient = g.httpClient
    /\ isInitialized = g.isInitialized
    /\ initRet = NoRet
    /\ appInit = g.isInitialized
    /\ pc = "idle"
    /\ method = ""
    /\ urlStr = <<>>
    /\ body = NilBody
    /\ payloadStr = <<>>
    /\ headers = NilMap
    /\ ctx = 0
    /\ maxAttempts = 0
    /\ attempt = 0
    /\ lastErr = NoErr
    /\ responseBody = <<>>
    /\ now = 0
    /\ ret = NoRet
    /\ callerHeaders = NilMap
    /\ obs = NoObs
    /\ logged = {}
    /\ goroutine = [p \in Goroutines |-> Parked]
    /\ initLog = NoInits
    /\ app = [url |-> u,
                 queryParams |-> MakeMap({Entry("page", <<"1">>),
                                          Entry("limit", <<"10">>)}),
                 headers |-> h, script |-> <<s1, s2>>, select |-> sel,
                 first |-> NoRet, second |-> NoRet]

\* MakeGETRequest(description, app.url, app.queryParams, headers): the
\* first call, or the second with the map the first was given
ReplayCall(t) ==
  /\ app.second = NoRet
  /\ MakeQueryRequest(methodGET, app.url, app.queryParams,
                      IF app.first = NoRet THEN app.headers
                                              ELSE app.first.callerHeaders,
                      t)

\* the round trip of an attempt does what the script says
ReplayTrip(t1, sentAll) ==
  /\ pc = "attempt"
  /\ LET step == app.script[obs.nAttempts + 1]
     IN  /\ step.tr \in FinishedTrips => t1 = now + step.d
         /\ AttemptTrip(step.tr, t1, sentAll)

\* the select of the retry wait takes the case the script names
ReplayWait ==
  \/ app.select = "timer" /\ WaitTimer
  \/ app.select = "deadline" /\ WaitDeadline

\* the application keeps the outcome of the first call ...
KeepFirst ==
  /\ app.first = NoRet
  /\ Forget
  /\ app' = [app EXCEPT !.first = Outcome]
  /\ UNCHANGED <<package, conc>>

\* ... and of the second
KeepSecond ==
  /\ app.first # NoRet
  /\ app.second = NoRet
  /\ Forget
  /\ app' = [app EXCEPT !.second = Outcome]
  /\ UNCHANGED <<package, conc>>

ReplayNext ==
  \/ \E t \in EntryTimes : ReplayCall(t)
  \/ \E t1 \in ReturnTimes, sentAll \in BOOLEAN : ReplayTrip(t1, sentAll)
  \/ ReplayWait
  \/ KeepFirst
  \/ KeepSecond

ReplaySpec == ReplayInit /\ [][ReplayNext]_vars

(***************************************************************************)
(* Validation on its own: Init called with configurations whose fields     *)
(* take values on both sides of every rule of Validate.                    *)
(***************************************************************************)
ValidateConfigs ==
  {[NewConfig(b) EXCEPT
      !.TimeoutConfig = [@ EXCEPT !.DialTimeout = d,
                                  !.TLSHandshakeTimeout = h,
                                  !.ResponseHeaderTimeout = r],
      !.ConnectionConfig = [MaxIdleConns |-> mi, MaxIdleConnsPerHost |-> mh,
                            MaxConnsPerHost |-> mc],
      !.RetryConfig = [@ EXCEPT !.MaxRetries = n, !.RetryDelay = rd]] :
     b \in {-1, 0, ShortTimeout}, d \in {-1, 0, 5}, h \in {0, 10},
     r \in {-1, 10}, mi \in {-1, 0, 100}, mh \in {-1, 10}, mc \in {-1, 0},
     n \in {-1, 0}, rd \in {-1, 0, MaxRetryDelay}}

\* the application has built a Config and has not yet called Init
ValidateInit ==
  \E cfg \in ValidateConfigs :
    /\ config = NilConfig
    /\ httpClient = NilClient
    /\ isInitialized = FALSE
    /\ initRet = NoRet
    /\ appInit = FALSE
    /\ pc = "idle"
    /\ method = ""
    /\ urlStr = <<>>
    /\ body = NilBody
    /\ payloadStr = <<>>
    /\ headers = NilMap
    /\ ctx = 0
    /\ maxAttempts = 0
    /\ attempt = 0
    /\ lastErr = NoErr
    /\ responseBody = <<>>
    /\ now = 0
    /\ ret = NoRet
    /\ callerHeaders = NilMap
    /\ obs = NoObs
    /\ logged = {}
    /\ goroutine = [p \in Goroutines |-> Parked]
    /\ initLog = NoInits
    /\ app = [cfg |-> cfg]

\* Init(cfg) with the Config the application built
ValidateNext == initRet = NoRet /\ InitCall(app.cfg)

ValidateSpec == ValidateInit /\ [][ValidateNext]_vars

(***************************************************************************)
(* Properties of the retry loop.                                           *)
(***************************************************************************)
\* a call that entered the pipeline has returned
Returned == pc = "done" /\ obs.reached

\* the shared deadline did not fire before the call returned
DeadlineHeld == now < ctx /\ ~obs.waitExpired

\* C1: under maxRetries = N, a call whose every attempt ends in a retryable
\* failure and whose deadline does not fire performs exactly N + 1 attempts
\* and returns the error of attempt N + 1.
C1_PermanentFailureTakesAllAttempts ==
  (Returned /\ obs.nAttempts >= 1 /\ obs.allRetryable /\ DeadlineHeld)
    => /\ obs.nAttempts = config.RetryConfig.MaxRetries + 1
       /\ ret.err # NoErr
       /\ ret.err = obs.last.err

\* a call under maxRetries = 2 has failed retryably three times and returned
C1_Witness ==
  /\ Returned /\ obs.allRetryable /\ DeadlineHeld
  /\ config.RetryConfig.MaxRetries = 2
  /\ obs.nAttempts = 3
  /\ ret.err.kind = "status"

\* C2: a call whose attempt k is answered 2xx after k - 1 retried failures
\* performs exactly k attempts and k - 1 waits, returns the body of that
\* response with no error, and does nothing after attempt k.
C2_SuccessEndsTheCall ==
  obs.okAt # 0
    => /\ pc = "done"
       /\ obs.nAttempts = obs.okAt
       /\ obs.waits = obs.okAt - 1
       /\ ret = [body |-> obs.respBody, err |-> NoErr]

\* the third attempt of a call was answered 2xx with a body
C2_Witness ==
  /\ Returned /\ obs.okAt = 3 /\ obs.nAttempts = 3
  /\ ret.body # <<>> /\ ret.err = NoErr

\* C3: when an attempt is answered with a non-2xx status c while retries
\* remain and the deadline has not fired, the loop goes on to another
\* attempt if and only if c is in the configured retryable set.
C3_RetryIffStatusInSet ==
  (/\ pc \in {"wait", "done"} /\ obs.reached
   /\ obs.lastKind = "response" /\ ~Is2xx(obs.lastStatus)
   /\ obs.nAttempts < maxAttempts
   /\ DeadlineHeld)
    => (pc = "wait" <=> obs.lastStatus \in config.RetryConfig.RetryOnStatus)

\* C4: if the deadline fires before the timer of a retry wait, the call
\* returns the deadline error with an empty body and performs no attempt.
C4_DeadlineEndsTheWait ==
  [][(pc = "wait" /\ ctx < now + config.RetryConfig.RetryDelay)
       => /\ pc' = "done"
          /\ ret' = [body |-> <<>>, err |-> CtxErr]
          /\ obs'.nAttempts = obs.nAttempts
          /\ obs'.nTrips = obs.nTrips]_vars

\* the deadline ended the wait between attempts 2 and 3, before the timer,
\* with a retry left
C4_Witness ==
  /\ Returned /\ obs.waitExpired /\ ctx < obs.timerAt
  /\ obs.nAttempts = 2 /\ attempt < maxAttempts
  /\ ret.err = CtxErr

\* C5: if the deadline has fired when an attempt returns, the call returns
\* with that attempt, whatever its error and however many retries remain.
C5_ExpiredAttemptEndsTheCall ==
  [][(pc = "attempt" /\ now' >= ctx')
       => /\ pc' = "done"
          /\ obs'.nAttempts = obs.nAttempts + 1
          /\ obs'.waits = obs.waits]_vars

\* an attempt returned a retryable error as the deadline fired, with
\* retries left, and the call returned
C5_Witness ==
  /\ Returned /\ obs.cut /\ ~obs.waitExpired
  /\ obs.nAttempts < maxAttempts
  /\ shouldRetry(ret.err, config)

\* C6 as stated: whenever the deadline ends a call, in a wait or in an
\* attempt, the call returns the deadline error.
C6_DeadlineErrorAlways ==
  (Returned /\ (obs.waitExpired \/ obs.cut)) => ret.err.kind = "deadline"

\* C6, amended: a call the deadline ends in a retry wait returns the
\* deadline error with an empty body; a call whose attempt returns an error
\* after the deadline fired returns that attempt's body and error, which is
\* the deadline error exactly when the deadline cut the round trip or the
\* body read short.
C6_DeadlineErrorWhenCut ==
  /\ (Returned /\ obs.waitExpired) => ret = [body |-> <<>>, err |-> CtxErr]
  /\ (Returned /\ obs.expired /\ ~obs.waitExpired)
       => /\ ret = obs.last
          /\ ret.err.kind = "deadline" <=> obs.lastKind \in {"ctx", "ctxread"}

\* the deadline ended a retry wait that followed a non-2xx response with a
\* body
C6_Witness ==
  /\ Returned /\ obs.waitExpired
  /\ obs.last.err.kind = "status" /\ obs.last.body # <<>>
  /\ ret.err.kind = "deadline"

\* C7 as stated: a call that performed an attempt returns the (body, error)
\* of the last attempt it performed.
C7_LastOutcomeAlways ==
  (Returned /\ obs.nAttempts >= 1) => ret = obs.last

\* C7, amended: a call that performed an attempt returns the (body, error)
\* of the last attempt it performed, unless the deadline ended a retry wait,
\* and then it returns an empty body with the deadline error.
C7_LastOutcomeUnlessWaitExpired ==
  (Returned /\ obs.nAttempts >= 1)
    => IF obs.waitExpired
         THEN ret = [body |-> <<>>, err |-> CtxErr]
         ELSE ret = obs.last /\ obs.last # NoRet

\* the third attempt failed after two that had failed otherwise, and the
\* call returned its body and error
C7_Witness ==
  /\ Returned /\ obs.nAttempts = 3 /\ ~obs.waitExpired
  /\ ret.body # <<>> /\ ret.err.kind = "status"
  /\ ret = obs.last

\* C8: the deadline of a call is its entry time plus baseTimeout; every
\* attempt's request and every retry wait is bound to that deadline.
C8_OneDeadline ==
  (pc # "idle" /\ obs.reached)
    => /\ ctx = obs.entry + config.BaseTimeout
       /\ obs.nAttempts >= 1 => obs.reqCtx = obs.entry + config.BaseTimeout

\* a third attempt was made, later than the entry, after two waits
C8_Witness ==
  /\ Returned /\ obs.nAttempts = 3 /\ obs.waits = 2
  /\ now > obs.entry + 1
  /\ obs.reqCtx = obs.entry + ShortTimeout

\* C9: every attempt hands the transport an unread body whose content is
\* the codec's wire body, which is payloadStr; a call without a body has
\* none in any attempt.
C9_BodyRematerialized ==
  obs.reached
    => /\ obs.sentOk
       /\ obs.nTrips >= 1 => obs.sent = obs.wire
       /\ obs.wire.present => obs.wire.data = payloadStr
       /\ pc = "attempt" => Unread(body) = obs.wire

\* three round trips of a call with a body: the second sent a rebuilt
\* body, the third a rewound one
C9_Witness ==
  /\ obs.reached /\ obs.nTrips = 3
  /\ obs.wire.present /\ obs.wire.data # <<>>
  /\ body.kind = "reader"
  /\ obs.sent = obs.wire

\* C10: a call made before any Init succeeded installs the default
\* configuration (baseTimeout 30 s, maxRetries 0) before its first attempt
\* and, as every call under it, performs exactly one attempt; a call made
\* after an Init succeeded leaves configuration and transport as they were.
C10_DefaultOnFirstCall ==
  (pc # "idle" /\ obs.reached)
    => /\ isInitialized /\ config # NilConfig /\ httpClient # NilClient
       /\ ~obs.gAtEntry.isInitialized
            => /\ config = NewConfig(DefaultBaseTimeout)
               /\ config.BaseTimeout = 30
               /\ config.RetryConfig.MaxRetries = 0
               /\ httpClient = createHTTPClient(config)
       /\ (config.BaseTimeout = DefaultBaseTimeout /\ pc = "done")
            => obs.nAttempts = 1
       /\ obs.gAtEntry.isInitialized => Globals = obs.gAtEntry

\* the first call of a process that never called Init failed retryably and
\* returned after one attempt
C10_Witness ==
  /\ Returned /\ ~obs.gAtEntry.isInitialized /\ ~appInit
  /\ obs.nAttempts = 1
  /\ obs.lastStatus = 503

(***************************************************************************)
(* Properties of initialization.                                           *)
(***************************************************************************)
\* C11: an Init with a configuration that breaks a validation rule returns
\* the configuration error and leaves config, httpClient and isInitialized
\* as they were, so that a call made while nothing is installed still
\* installs the default; an Init with a valid configuration installs it with
\* a client built from it and sets isInitialized.
C11_InitValidatesThenInstalls ==
  [][/\ \A cfg \in UserConfigs :
          InitCall(cfg)
            => IF Validate(cfg) # NoErr
                 THEN /\ initRet'.kind = "config"
                      /\ initRet'.msg = <<"invalid configuration: ">> \o Validate(cfg).msg
                      /\ Globals' = Globals
                 ELSE /\ initRet' = NoErr
                      /\ Globals' = ClientState(cfg, createHTTPClient(cfg), TRUE)
     /\ (initRet # NoRet /\ initRet # NoErr /\ ~isInitialized
           /\ pc = "idle" /\ pc' # "idle" /\ obs'.reached)
          => Globals' = ClientState(NewConfig(DefaultBaseTimeout),
                                    createHTTPClient(NewConfig(DefaultBaseTimeout)),
                                    TRUE)]_vars

\* an Init was refused while a configuration with two retries was installed
C11_Witness ==
  /\ initRet # NoRet /\ initRet.kind = "config"
  /\ isInitialized /\ appInit
  /\ config.RetryConfig.MaxRetries = 2
  /\ httpClient = createHTTPClient(config)

\* C12 as stated: once an Init has succeeded, the installed configuration
\* (baseTimeout, maxRetries, retryDelay, retryable set, logging flags)
\* changes only in a step of another successful Init.
C12_SettingsChangeOnlyByInit ==
  [][(appInit /\ config' # config)
       => \E cfg \in UserConfigs : InitCall(cfg) /\ initRet' = NoErr]_vars

\* C13 as stated: in every state, also between two statements of an Init
\* that runs while calls do, the installed configuration and the installed
\* client were stored by the same invocation of Init.
C13_ConfigAndClientOfOneInit ==
  isInitialized => initLog.config = initLog.httpClient

\* C14 as stated: while the application never calls Init, createHTTPClient
\* runs at most once, however the first calls interleave.
C14_ClientBuiltOnce ==
  initLog.explicit = 0 => initLog.built <= 1

\* C15 as stated: a call made while logging.enabled is false writes
\* nothing to the log, whatever its attempts do.
C15_SilentWhenDisabled ==
  (pc # "idle" /\ obs.reached /\ ~config.LoggingConfig.Enabled) => logged = {}

\* C16 as stated: a call that returns a URL or payload-encoding error has
\* made no round trip, has not waited for a retry and has tried to build
\* its request at most once, on every public operation and for every URL.
C16_EncodingErrorNeverRetried ==
  (pc = "done" /\ ret.err.kind \in {"parse", "json"})
    => /\ obs.nTrips = 0
       /\ obs.nAttempts <= 1
       /\ obs.waits = 0

(***************************************************************************)
(* Properties of the payload codec.                                        *)
(***************************************************************************)
\* the text of {"msg":"hello"}
HelloJSON == <<"{", "\"", "msg", "\"", ":", "\"", "hello", "\"", "}">>

\* the request body of a call of a structured operation is the JSON text of
\* its payload, with no quotes around it
StructBodyUnwrapped ==
  (obs.reached /\ obs.given.op = "struct" /\ ~obs.given.payload.isNil)
    => /\ obs.wire = [present |-> TRUE, data |-> jsonMarshal(obs.given.payload).out]
       /\ obs.given.payload = MakeMap({Entry("msg", <<"hello">>)})
            => obs.wire.data = HelloJSON
       /\ obs.nTrips >= 1 => obs.sent = obs.wire

\* C17 as stated: the request body of a call of a string operation is the
\* payload with one pair of double quotes around it, for every payload; the
\* body of a structured operation is the JSON text of its payload.
C17_StringQuotedAlways ==
  /\ (obs.reached /\ obs.given.op = "string")
       => obs.wire = [present |-> TRUE,
                      data |-> <<"\"">> \o obs.given.text \o <<"\"">>]
  /\ StructBodyUnwrapped

\* C17, amended: the request body of a call of a string operation is the
\* payload with one pair of double quotes around it when the payload is not
\* the empty string, and the call has no request body when it is; the body
\* of a structured operation is the JSON text of its payload.
C17_StringQuotedUnlessEmpty ==
  /\ (obs.reached /\ obs.given.op = "string")
       => /\ obs.wire = IF obs.given.text = <<>>
                          THEN NoWire
                          ELSE [present |-> TRUE,
                                data |-> <<"\"">> \o obs.given.text \o <<"\"">>]
          /\ obs.nTrips >= 1 => obs.sent = obs.wire
  /\ StructBodyUnwrapped

\* a string operation was called with hello and "hello" was sent twice
C17_Witness ==
  /\ obs.reached /\ obs.given.op = "string" /\ obs.given.text = <<"hello">>
  /\ obs.nTrips = 2
  /\ obs.sent = [present |-> TRUE, data |-> <<"\"", "hello", "\"">>]

\* the Content-Type lines of a request header
ContentTypes(h) == {x \in h : x.name = <<"C", "o", "n", "t", "e", "n", "t", "-", "T", "y", "p", "e">>}

\* C18 as stated: on the raw-XML path the body of every attempt is the
\* caller's payload, and the request carries exactly one Content-Type: the
\* caller's when the caller's headers set one, text/xml; charset=UTF-8
\* otherwise.
C18_XMLBodyAndContentType ==
  (obs.reached /\ obs.given.op = "xml")
    => /\ obs.wire = [present |-> TRUE, data |-> obs.given.text]
       /\ obs.nTrips >= 1 => obs.sent = obs.wire
       /\ LET mine == ContentTypes(RequestHeader(obs.given.headers))
               sent == ContentTypes(RequestHeader(headers))
           IN  /\ Cardinality(sent) = 1
               /\ mine # {} => sent = mine
               /\ mine = {} => {x.value : x \in sent} = {XMLContentType}

\* the text of https://api.example.com/users?limit=10&page=1
UsersPage1 ==
  <<"https://api.example.com/users", "?", "limit", "=", "10", "&", "page", "=", "1">>

\* C19: a call of GET, DELETE, HEAD or OPTIONS sends no request body in any
\* attempt, and the parameters of its request URL are those of the base URL
\* with every key of the payload set to the payload's value.
C19_QueryParametersMerged ==
  (obs.reached /\ obs.given.op = "query")
    => /\ obs.wire = NoWire
       /\ obs.sent = NoWire /\ obs.sentOk
       /\ body = NilBody
       /\ BeforeQuery(urlStr) = BeforeQuery(obs.given.url)
       /\ Query(urlStr).m
            = {e \in Query(obs.given.url).m : e.k \notin Keys(obs.given.payload)}
                \cup obs.given.payload.m
       /\ (obs.given.url = GoodURL /\ Keys(obs.given.payload) = {"page", "limit"})
            => urlStr = UsersPage1

\* a GET of a base URL with parameters page and sort, called with page and
\* limit, was sent twice under the merged parameters
C19_Witness ==
  /\ obs.reached /\ obs.given.op = "query" /\ method = methodGET
  /\ obs.given.url = QueryURL /\ Keys(obs.given.payload) = {"page", "limit"}
  /\ obs.nTrips = 2
  /\ Query(urlStr).m = {Entry("limit", <<"10">>), Entry("page", <<"1">>),
                         Entry("sort", <<"a", " ", "b">>)}

\* the headers entries of the log
HeadersLogged == {e.content : e \in {x \in logged : x.property = "headers"}}

\* "Authorization":"value" as json.Marshal writes it
AuthorizationPair(value) ==
  <<"\"", "Authorization", "\"", ":", "\"">> \o value \o <<"\"">>

\* a request whose headers, Authorization: Bearer abcdef1234567890 among
\* them, have been logged
BearerLogged ==
  /\ pc = "logged"
  /\ config.LoggingConfig.Enabled /\ config.LoggingConfig.LogHeaders
  /\ Entry("Authorization", BearerToken) \in headers.m

\* C20 as stated: with sanitizeHeaders enabled, the header Authorization:
\* Bearer abcdef1234567890 is logged with the value Bearer abcde...; with
\* sanitizeHeaders disabled it is logged verbatim.
C20_BearerLoggedAsStated ==
  BearerLogged
    => \E content \in HeadersLogged :
         Contains(content,
                  AuthorizationPair(
                    IF config.LoggingConfig.SanitizeHeaders
                      THEN SubSeq(BearerToken, 1, 12) \o <<".", ".", ".">>
                      ELSE BearerToken))

\* C20, amended: with sanitizeHeaders enabled, the header Authorization:
\* Bearer abcdef1234567890 is logged with the first ten characters of its
\* value and an ellipsis, Bearer abc...; with sanitizeHeaders disabled it is
\* logged verbatim.
C20_BearerLoggedCutAtTen ==
  BearerLogged
    => /\ Cardinality(HeadersLogged) = 1
       /\ \A content \in HeadersLogged :
            Contains(content,
                     AuthorizationPair(
                       IF config.LoggingConfig.SanitizeHeaders
                         THEN <<"B", "e", "a", "r", "e", "r", " ", "a", "b", "c",
                                ".", ".", ".">>
                         ELSE BearerToken))

\* the header was logged, cut, next to a header that is not sensitive
C20_Witness ==
  /\ BearerLogged
  /\ config.LoggingConfig.SanitizeHeaders
  /\ "Accept" \in Keys(headers)
  /\ HeadersLogged # {}

\* C21: two GET calls made one after the other with the same arguments,
\* against a transport that answers both alike, return the same outcome
\* after the same number of attempts of the same request (URL, headers, no
\* body); between the calls the pipeline holds nothing of the first
\* (attempt counter, last error, body, headers), and neither call changes
\* the caller's headers map.
C21_RepeatedGETIndependent ==
  /\ app.second # NoRet
       => /\ app.second = app.first
          /\ app.second.callerHeaders = app.headers
          /\ app.second.sent = NoWire /\ app.second.sentOk
  /\ (pc = "idle" /\ app.first # NoRet)
       => /\ attempt = 0 /\ maxAttempts = 0 /\ lastErr = NoErr
          /\ responseBody = <<>> /\ body = NilBody /\ headers = NilMap

\* both calls were answered 503, then 200 on the retry
C21_Witness ==
  /\ app.second # NoRet
  /\ app.url = QueryURL
  /\ app.first.nAttempts = 2 /\ app.second.nTrips = 2
  /\ app.second.ret = [body |-> <<"r">>, err |-> NoErr]
  /\ "Accept" \in Keys(app.headers)

\* the rules of validation in their order: whether c breaks the rule, and
\* the message of the rule
ValidationRules(c) ==
  <<[broken |-> c.BaseTimeout <= 0,
     msg |-> <<"baseTimeout must be greater than 0">>],
    [broken |-> c.TimeoutConfig.DialTimeout <= 0,
     msg |-> <<"dialTimeout must be greater than 0">>],
    [broken |-> c.TimeoutConfig.TLSHandshakeTimeout <= 0,
     msg |-> <<"tlsHandshakeTimeout must be greater than 0">>],
    [broken |-> c.ConnectionConfig.MaxIdleConns < 0,
     msg |-> <<"maxIdleConns cannot be negative">>],
    [broken |-> c.ConnectionConfig.MaxIdleConnsPerHost < 0,
     msg |-> <<"maxIdleConnsPerHost cannot be negative">>],
    [broken |-> c.RetryConfig.MaxRetries < 0,
     msg |-> <<"maxRetries cannot be negative">>]>>

BrokenRules(c) == {i \in 1..Len(ValidationRules(c)) : ValidationRules(c)[i].broken}

\* C22: validation fails if and only if baseTimeout <= 0, dialTimeout <= 0,
\* tlsHandshakeTimeout <= 0, maxIdleConns < 0, maxIdleConnsPerHost < 0 or
\* maxRetries < 0, and then with the error of the first of these rules that
\* is broken; retryDelay, maxConnsPerHost and the other timeouts never make
\* it fail.
C22_ValidateFirstBrokenRule ==
  initRet # NoRet
    => /\ (initRet = NoErr <=> BrokenRules(app.cfg) = {})
       /\ (Validate(app.cfg) = NoErr <=> BrokenRules(app.cfg) = {})
       /\ BrokenRules(app.cfg) # {}
            => LET first == CHOOSE i \in BrokenRules(app.cfg) :
                              \A j \in BrokenRules(app.cfg) : i <= j
               IN  /\ Validate(app.cfg).msg = ValidationRules(app.cfg)[first].msg
                   /\ initRet.msg = <<"invalid configuration: ">>
                                      \o ValidationRules(app.cfg)[first].msg

\* Init has refused, for its dial timeout, a configuration that also has a
\* negative maxRetries, retryDelay and maxConnsPerHost
C22_Witness ==
  /\ initRet # NoRet /\ initRet # NoErr
  /\ initRet.msg = <<"invalid configuration: ", "dialTimeout must be greater than 0">>
  /\ app.cfg.RetryConfig.MaxRetries = -1
  /\ app.cfg.RetryConfig.RetryDelay = -1
  /\ app.cfg.ConnectionConfig.MaxConnsPerHost = -1

\* the message holds 'response code: N' for an N of the retryable set, or
\* one of the words connection, timeout, EOF as they are written here
RetryPhrase(msg, cfg) ==
  \/ \E n \in cfg.RetryConfig.RetryOnStatus :
       Contains(msg, <<"response code: ">> \o FormatInt(n))
  \/ \E i \in 1..Len(msg) : msg[i] \in {"connection", "timeout", "EOF"}

\* C23: the Retry Decision on the error of an attempt is true exactly when
\* the error is not nil and its message holds 'response code: N' for an N of
\* the retryable set or one of the substrings connection, timeout, EOF in
\* exactly this case; when it is false the call returns after that
\* attempt, and when it is true, retries remain and the deadline has not
\* fired, the loop goes on.
C23_RetryDecision ==
  (pc \in {"wait", "done"} /\ obs.reached /\ obs.nAttempts >= 1
     /\ ~obs.waitExpired)
    => LET e == obs.last.err
           decision == e # NoErr /\ RetryPhrase(e.msg, config)
       IN  /\ shouldRetry(e, config) = decision
           /\ pc = "wait" => decision
           /\ ~decision => pc = "done" /\ ret = obs.last
           /\ (decision /\ ~obs.expired /\ obs.nAttempts < maxAttempts)
                => pc = "wait"

\* the first attempt of a call with two retries failed with a message that
\* holds Connection and Timeout, and the call returned that error
C23_Witness ==
  /\ Returned /\ obs.nAttempts = 1 /\ maxAttempts = 3 /\ DeadlineHeld
  /\ Contains(ret.err.msg, <<"Timeout">>) /\ Contains(ret.err.msg, <<"Connection">>)
  /\ ~shouldRetry(ret.err, config)

\* C24: an attempt returns no error if and only if its round trip and body
\* read succeeded and the status is in 200..299, and then it returns the
\* response body; for any other status it returns the whole response body
\* with the error 'received non-2xx response code: <code>'; when the round
\* trip or the body read fails it returns an empty body with the error of
\* the failure.
C24_AttemptOutcome ==
  (obs.reached /\ obs.nAttempts >= 1)
    => /\ obs.last.err = NoErr
            <=> (obs.lastKind = "response" /\ obs.lastStatus \in 200..299)
       /\ obs.lastKind = "response" => obs.last.body = obs.respBody
       /\ (obs.lastKind = "response" /\ obs.lastStatus \notin 200..299)
            => obs.last.err.msg
                 = <<"received non-2xx ", "response code: ">>
                     \o FormatInt(obs.lastStatus)
       /\ obs.lastKind # "response"
            => /\ obs.last.body = <<>>
               /\ obs.last.err.kind
                    = CASE obs.lastKind = "neterr" -> "transport"
                        [] obs.lastKind = "readerr" -> "read"
                        [] obs.lastKind \in {"ctx", "ctxread"} -> "deadline"
                        [] obs.lastKind = "none" -> "parse"

\* an attempt was answered 429 with a body and returned both the body and
\* the status error
C24_Witness ==
  /\ obs.reached /\ obs.nAttempts >= 1
  /\ obs.lastKind = "response" /\ obs.lastStatus = 429
  /\ obs.last.body = <<"r">>
  /\ obs.last.err.msg = <<"received non-2xx ", "response code: ", "4", "2", "9">>

\* the bytes of the model's values that continue a UTF-8 character
ContinuationBytes == {"0xA4", "0xB6"}

\* utf8.RuneCountInString(value), for values cut into bytes
RuneCount(value) ==
  Cardinality({i \in 1..Len(value) : value[i] \notin ContinuationBytes})

\* the first n characters of value
FirstRunes(value, n) ==
  SubSeq(value, 1,
         IF RuneCount(value) <= n THEN Len(value)
         ELSE CHOOSE last \in 0..Len(value) :
                /\ RuneCount(SubSeq(value, 1, last)) = n
                /\ value[last + 1] \notin ContinuationBytes)

\* the name holds one of the sensitive terms, in any case
SensitiveName(key) ==
  \E i \in 1..Len(sensitiveHeaders) :
    Contains(ToLower(Spell(key)), sensitiveHeaders[i])

\* "key":"value" as json.Marshal writes it
HeaderPair(key, value) == <<"\"", key, "\"", ":", "\"">> \o value \o <<"\"">>

\* what C25 says the log shows of a header
MaskedAsStated(key, value) ==
  IF ~SensitiveName(key) THEN value
  ELSE IF RuneCount(value) > 10 THEN FirstRunes(value, 10) \o <<".", ".", ".">>
  ELSE <<"*", "*", "*">>

\* C25: with sanitizeHeaders enabled, a header whose name holds
\* authorization, auth, token, api-key, x-api-key or bearer (in any case) is
\* logged with the first 10 characters of its value and '...' when the
\* value is longer than 10 characters, and with a fixed placeholder that
\* shows no character of it when it is 10 characters or shorter; every
\* other header is logged verbatim.
C25_SensitiveValuesMasked ==
  (/\ pc = "logged"
   /\ config.LoggingConfig.Enabled /\ config.LoggingConfig.LogHeaders
   /\ config.LoggingConfig.SanitizeHeaders
   /\ headers.m # {})
    => /\ Cardinality(HeadersLogged) = 1
       /\ \A content \in HeadersLogged : \A e \in headers.m :
            Contains(content, HeaderPair(e.k, MaskedAsStated(e.k, e.v)))

\* C26: the attempts of a call come one after the other.  The first starts
\* at entry, with no wait before it; an attempt in progress ends before
\* anything else happens in the call; a wait begins only when an attempt has
\* returned an error the Retry Decision accepts and another attempt
\* remains, so that none follows the last attempt; and the next attempt
\* starts only from a wait, when the whole retryDelay has passed since the
\* attempt before it returned.
C26_AttemptsSequential ==
  [][/\ pc' = "attempt" => pc \in {"idle", "wait"}
     /\ (pc = "idle" /\ pc' = "attempt")
          => obs'.nAttempts = 0 /\ obs'.waits = 0 /\ now' = obs'.entry
     /\ pc = "attempt"
          => pc' \in {"wait", "done"} /\ obs'.nAttempts = obs.nAttempts + 1
     /\ pc' = "wait"
          => /\ pc = "attempt"
             /\ lastErr' = obs'.last.err
             /\ shouldRetry(lastErr', config)
             /\ obs'.nAttempts < maxAttempts
             /\ obs'.waits = obs'.nAttempts
     /\ (pc = "attempt" /\ pc' = "done")
          => obs'.waits = obs'.nAttempts - 1 /\ ~obs'.waitExpired
     /\ (pc = "wait" /\ pc' = "attempt")
          => /\ now' = now + config.RetryConfig.RetryDelay
             /\ obs'.nAttempts = obs.nAttempts /\ obs'.waits = obs.nAttempts
             /\ attempt' = obs.nAttempts]_vars

\* the second attempt of a call is about to start, a whole retryDelay of
\* MaxRetryDelay after the first returned
C26_Witness ==
  /\ pc = "attempt" /\ obs.reached
  /\ obs.nAttempts = 1 /\ obs.waits = 1
  /\ config.RetryConfig.RetryDelay = MaxRetryDelay
  /\ now >= obs.entry + MaxRetryDelay

\* &RetryConfig{MaxRetries: n, RetryDelay: d}: the status set is left out
OnlyRetriesSet == {r \in RetryConfigs : r.RetryOnStatus = {}}

C28_CallReturns == (pc \in {"attempt", "wait"}) ~> (pc = "done")

\* a call under two retries has returned after three attempts and two
\* waits, the last of them failed
C28_Witness ==
  /\ Returned /\ config.RetryConfig.MaxRetries = MaxRetriesBound
  /\ obs.nAttempts = MaxRetriesBound + 1 /\ obs.waits = MaxRetriesBound
  /\ ret.err # NoErr

\* C29: when a call has returned, the caller's headers map holds the keys and
\* values it held when the call was made, whichever public operation it was.
C29_CallerHeadersUntouched ==
  Returned => callerHeaders = obs.given.headers

=============================================================================
